---- MODULE Spec2Model ----
(***************************************************************************)
(* A model of the user-facing handlers of the remnawave-tg-shop bot:       *)
(* trial activation (bot/handlers/user/trial_handler.py), onboarding       *)
(* (bot/handlers/user/start.py) and promo-code input                       *)
(* (bot/handlers/user/promo_user.py).                                      *)
(*                                                                         *)
(* Text is modelled as a sequence of one-character strings, so that the    *)
(* regular expressions, strip(), upper(), int() and strftime() of the      *)
(* handlers are computed character by character.                           *)
(*                                                                         *)
(* Each handler is one action.  What a handler did in its last invocation  *)
(* (the calls it made, the alert and the screen it produced) is kept in a  *)
(* *_call variable, next to the persisted state the handler changed.       *)
(***************************************************************************)
EXTENDS Integers, Sequences, FiniteSets, TLC

\* ---------------------------------------------------------------- bounds

\* Telegram user ids of the model: 1..MaxUser.
MaxUser == 3

UserIds == 1..MaxUser

\* The users who send commands, texts and callbacks: 1..MaxCaller.  The
\* other users are rows of the tables.
MaxCaller == 1

Callers == 1..MaxCaller

\* Python's None for an optional user id (referred_by_id, referred_by_user_id).
NoId == 0

\* Python's None (or 0) for REQUIRED_CHANNEL_ID and for
\* channel_subscription_verified_for.
NoChannel == 0

VARIABLES
    settings,      \* config.settings.Settings: fixed after start-up
    users,         \* table User, by user_id
    subs,          \* table Subscription, as the two facts the handlers read
    fsm_state,     \* aiogram FSM state of each user
    trial_call,    \* last invocation of _activate_trial / cancel_trial_activation
    start_call,    \* last invocation of start_command_handler
    ref_call,      \* last resolution of a referral payload
    promo_call,    \* last invocation of process_promo_code_input
    subscriptions, \* table Subscription, by subscription_id
    cards,         \* whether each user has a saved payment method
    renew_call,    \* last auto-renew callback handled
    channel,       \* the channel_subscription_* fields of each User
    clock,         \* datetime.now(timezone.utc)
    gate_call,     \* last run of the channel gate and of what follows it
    last_messages,   \* message_cleaner._last_messages[chat_id], one chat
    chat_messages,   \* the messages of send_clean still in the chat
    next_message_id, \* the message_id Telegram gives the next message
    task,            \* where each coroutine is inside send_clean
    undeleted,       \* messages whose delete failed while they were there
    clean_call,      \* the last send_clean call that ended
    date_call,       \* the arguments and the result of add_months
    plural_call,     \* the argument and the result of pluralize_months
    title_call,      \* the arguments and the result of _format_pm_title
    pm_methods,      \* table UserPaymentMethod, in the order it is listed
    billing,         \* table UserBilling, by user_id
    pm_call,         \* last payment-method callback handled
    attribution,     \* table AdAttribution: the attribution of each user
    panel_devices,   \* what the panel answers to get_user_devices, by user
    dev_call,        \* last device callback handled
    start_task,      \* where each of two concurrent /start is, and its locals
    trial_task,      \* where each of two concurrent trial callbacks is
    nav_call,        \* last main-menu navigation callback handled
    welcome_call     \* the messages the last /start put into the chat

\* The auto-renew state.
RenewVars == <<subscriptions, cards, renew_call>>

\* The channel-gate state.
GateVars == <<channel, clock, gate_call>>

\* The state of the message cleaner.
CleanVars ==
    <<last_messages, chat_messages, next_message_id, task, undeleted,
      clean_call>>

\* The calls of the helpers no handler above writes.
\* The state of the payment-method screens.
PmVars == <<pm_methods, billing, pm_call>>

\* The state of the device screens.
DevVars == <<panel_devices, dev_call>>

\* The variables of the handlers modelled last.
RaceVars == <<start_task, trial_task>>

\* The navigation callbacks and the screens of /start.
NavVars == <<nav_call, welcome_call>>

LateVars == <<DevVars, RaceVars, NavVars>>

UtilVars == <<plural_call, title_call, PmVars, LateVars>>

vars ==
    <<settings, users, subs, fsm_state, trial_call, start_call, ref_call,
      promo_call, RenewVars, GateVars, CleanVars, date_call, UtilVars,
      attribution>>

\* What the handlers of each module leave alone.
TrialFrame ==
    <<settings, users, fsm_state, start_call, ref_call, promo_call, RenewVars,
      GateVars,
      CleanVars, date_call, UtilVars>>
StartFrame ==
    <<settings, trial_call, ref_call, promo_call, RenewVars, clock,
      CleanVars, date_call, UtilVars>>
RefFrame ==
    <<settings, users, subs, fsm_state, trial_call, start_call, promo_call,
      RenewVars, GateVars,
      CleanVars, date_call, UtilVars, attribution>>
PromoFrame ==
    <<settings, users, trial_call, start_call, ref_call, RenewVars, GateVars,
      CleanVars, date_call, UtilVars, attribution>>
RenewFrame ==
    <<settings, users, subs, fsm_state, trial_call, start_call, ref_call,
      promo_call, GateVars,
      CleanVars, date_call, UtilVars, attribution>>
CleanFrame ==
    <<settings, users, subs, fsm_state, trial_call, start_call, ref_call,
      promo_call, RenewVars, GateVars, date_call, UtilVars, attribution>>
DateFrame ==
    <<settings, users, subs, fsm_state, trial_call, start_call, ref_call,
      promo_call, RenewVars, GateVars, CleanVars, UtilVars, attribution>>
HandlerVars ==
    <<settings, users, subs, fsm_state, trial_call, start_call, ref_call,
      promo_call, RenewVars, GateVars, CleanVars, date_call, attribution>>
PluralFrame == <<HandlerVars, title_call, PmVars, LateVars>>
TitleFrame == <<HandlerVars, plural_call, PmVars, LateVars>>
PmFrame == <<HandlerVars, plural_call, title_call, LateVars>>
DevFrame ==
    <<HandlerVars, plural_call, title_call, PmVars, RaceVars, NavVars>>
StartRaceFrame ==
    <<settings, subs, fsm_state, trial_call, start_call, ref_call,
      promo_call, RenewVars, GateVars, CleanVars, date_call, attribution,
      plural_call, title_call, PmVars, DevVars, trial_task, NavVars>>
TrialRaceFrame ==
    <<settings, users, fsm_state, trial_call, start_call, ref_call,
      promo_call, RenewVars, GateVars, CleanVars, date_call, attribution,
      plural_call, title_call, PmVars, DevVars, start_task, NavVars>>
DeleteFrame ==
    <<settings, users, subs, fsm_state, trial_call, start_call, ref_call,
      promo_call, subscriptions, renew_call, GateVars, CleanVars, date_call,
      attribution, plural_call, title_call, LateVars>>
NavFrame ==
    <<settings, users, subs, trial_call, start_call, ref_call, promo_call,
      RenewVars, GateVars, CleanVars, date_call, attribution, plural_call,
      title_call, PmVars, DevVars, RaceVars, welcome_call>>
\* What /start leaves alone when the chat is modelled with it.
StartScreensFrame ==
    <<settings, trial_call, ref_call, promo_call, RenewVars, clock, task,
      clean_call, date_call, plural_call, title_call, PmVars, DevVars,
      RaceVars, nav_call>>
GateFrame ==
    <<settings, users, subs, fsm_state, trial_call, start_call, ref_call,
      promo_call, RenewVars, clock,
      CleanVars, date_call, UtilVars, attribution>>

\* ------------------------------------------------------------ characters

LowerSeq ==
    << "a", "b", "c", "d", "e", "f", "g", "h", "i", "j", "k", "l", "m",
       "n", "o", "p", "q", "r", "s", "t", "u", "v", "w", "x", "y", "z" >>

UpperSeq ==
    << "A", "B", "C", "D", "E", "F", "G", "H", "I", "J", "K", "L", "M",
       "N", "O", "P", "Q", "R", "S", "T", "U", "V", "W", "X", "Y", "Z" >>

DigitSeq == << "0", "1", "2", "3", "4", "5", "6", "7", "8", "9" >>

Range(s) == { s[i] : i \in DOMAIN s }

LowerSet == Range(LowerSeq)
UpperSet == Range(UpperSeq)
DigitSet == Range(DigitSeq)

IsLower(c) == c \in LowerSet
IsUpper(c) == c \in UpperSet
IsDigit(c) == c \in DigitSet
IsAlnum(c) == IsLower(c) \/ IsUpper(c) \/ IsDigit(c)

\* \w of Python's re: letters, digits and the underscore.
IsWordChar(c) == IsAlnum(c) \/ c = "_"

\* \s of Python's re, and the characters str.strip() removes.
IsSpace(c) == c \in { " ", "\t", "\n", "\r" }

IndexIn(s, c) == CHOOSE i \in DOMAIN s : s[i] = c

\* str.lower() and str.upper() on one character.
Lower(c) == IF IsUpper(c) THEN LowerSeq[IndexIn(UpperSeq, c)] ELSE c
Upper(c) == IF IsLower(c) THEN UpperSeq[IndexIn(LowerSeq, c)] ELSE c

UpperStr(s) == [ i \in DOMAIN s |-> Upper(s[i]) ]

DigitVal(c) == IndexIn(DigitSeq, c) - 1

\* str.isdigit(): non-empty and every character a digit.
IsDigitStr(s) == Len(s) > 0 /\ \A i \in DOMAIN s : IsDigit(s[i])

\* int() of a string of digits.
RECURSIVE IntOf(_)
IntOf(s) ==
    IF Len(s) = 0 THEN 0
    ELSE 10 * IntOf(SubSeq(s, 1, Len(s) - 1)) + DigitVal(s[Len(s)])

\* str.strip(): leading and trailing white space removed.
RECURSIVE LStrip(_)
LStrip(s) ==
    IF Len(s) > 0 /\ IsSpace(s[1]) THEN LStrip(Tail(s)) ELSE s

RECURSIVE RStrip(_)
RStrip(s) ==
    IF Len(s) > 0 /\ IsSpace(s[Len(s)])
    THEN RStrip(SubSeq(s, 1, Len(s) - 1))
    ELSE s

Strip(s) == RStrip(LStrip(s))

\* s[i:] starts with p.
HasAt(s, i, p) ==
    /\ i >= 1
    /\ i + Len(p) - 1 <= Len(s)
    /\ \A k \in 1..Len(p) : s[i + k - 1] = p[k]

StartsWith(s, p) == HasAt(s, 1, p)

\* ----------------------------------------------------------------- state

\* Settings the handlers read.
SettingsDefault ==
    [ TRIAL_ENABLED |-> TRUE,
      LEGACY_REFS |-> TRUE,
      LOG_SUSPICIOUS_ACTIVITY |-> FALSE,
      REQUIRED_CHANNEL_ID |-> NoChannel,
      ADMIN_IDS |-> {},
      DISABLE_WELCOME_MESSAGE |-> FALSE,
      YOOKASSA_AUTOPAYMENTS_ENABLED |-> TRUE,
      MY_DEVICES_SECTION_ENABLED |-> TRUE ]

\* A user that /start has not registered yet.  profile stands for the fields
\* /start keeps in step with Telegram: language_code, username, first_name
\* and last_name.
NoUser == [ exists |-> FALSE, referred_by_id |-> NoId, profile |-> "" ]

\* A registered user with no referrer.
PlainUser == [ exists |-> TRUE, referred_by_id |-> NoId, profile |-> "p1" ]

\* No subscription ever / an expired one / an active one:
\* has_had_any_subscription and has_active_subscription.
SubStates ==
    { [ had |-> FALSE, active |-> FALSE ],
      [ had |-> TRUE, active |-> FALSE ],
      [ had |-> TRUE, active |-> TRUE ] }

\* ------------------------------------------------------------- main menu

\* send_main_menu: the alert and the screen it produces.  show_trial is the
\* trial-request button of the keyboard.
SendMainMenu_TrialWheneverEnabled(i18n_ok, is_callback, has_message, is_edit, ui_ok, trial_enabled, had) ==
    IF ~i18n_ok
    THEN [ alert |-> "Error: Language service unavailable.", screen |-> "",
           show_trial |-> FALSE, via |-> "" ]
    ELSE IF is_callback /\ ~has_message
    THEN [ alert |-> "error_displaying_menu", screen |-> "",
           show_trial |-> FALSE, via |-> "" ]
    ELSE [ alert |-> "",
           screen |-> "main_menu",
           show_trial |-> trial_enabled,
           via |-> IF is_edit
                   THEN (IF ui_ok THEN "edit_text" ELSE "answer")
                   ELSE (IF ui_ok THEN "send_clean" ELSE "failed") ]

SendMainMenu(i18n_ok, is_callback, has_message, is_edit, ui_ok, trial_enabled, had) ==
    IF ~i18n_ok
    THEN [ alert |-> "Error: Language service unavailable.", screen |-> "",
           show_trial |-> FALSE, via |-> "" ]
    ELSE IF is_callback /\ ~has_message
    THEN [ alert |-> "error_displaying_menu", screen |-> "",
           show_trial |-> FALSE, via |-> "" ]
    ELSE [ alert |-> "",
           screen |-> "main_menu",
           show_trial |-> (trial_enabled /\ ~had),
           via |-> IF is_edit
                   THEN (IF ui_ok THEN "edit_text" ELSE "answer")
                   ELSE (IF ui_ok THEN "send_clean" ELSE "failed") ]

\* ----------------------------------------------------------------- trial

TrialEntries == { "trial_action:request", "trial_action:confirm_activate" }

TrialIdle ==
    [ user |-> NoId, entry |-> "", had_before |-> FALSE, i18n_ok |-> FALSE,
      has_message |-> FALSE, activate_called |-> FALSE, alert |-> "",
      screen |-> "", show_trial |-> FALSE, via |-> "", marked |-> FALSE ]

\* What SubscriptionService.activate_trial_subscription returns: nothing, an
\* activation (with or without a subscription_url) or a failure (with or
\* without a message_key).
ActivationResults ==
    { [ kind |-> "none", message_key |-> "", subscription_url |-> "" ],
      [ kind |-> "activated", message_key |-> "", subscription_url |-> "" ],
      [ kind |-> "activated", message_key |-> "",
        subscription_url |-> "https://panel/sub/1" ],
      [ kind |-> "failed", message_key |-> "", subscription_url |-> "" ],
      [ kind |-> "failed", message_key |-> "trial_activation_panel_error",
        subscription_url |-> "" ] }

\* The subscription rows after activate_trial_subscription returned result.
ActivateTrialSubscription(s, u, result) ==
    IF result.kind = "activated"
    THEN [ s EXCEPT ![u] = [ had |-> TRUE, active |-> TRUE ] ]
    ELSE s

\* The guards of _activate_trial, in the order the code checks them.
TrialPrecheck_NoHadCheck(i18n_ok, has_message, trial_enabled, had) ==
    IF ~i18n_ok \/ ~has_message THEN "service_error"
    ELSE IF ~trial_enabled THEN "disabled"
    ELSE "eligible"

TrialPrecheck(i18n_ok, has_message, trial_enabled, had) ==
    IF ~i18n_ok \/ ~has_message THEN "service_error"
    ELSE IF ~trial_enabled THEN "disabled"
    ELSE IF had THEN "already_had"
    ELSE "eligible"

\* ad_dal.mark_trial_activated: the attribution of the user, if there is
\* one, is marked.
MarkTrialActivated(attr, u) ==
    IF attr[u] = "recorded" THEN [ attr EXCEPT ![u] = "trial_activated" ]
    ELSE attr

\* Lines 105-112: mark_trial_activated and the commit, or the rollback of
\* what the session holds when either raises.  activate_trial_subscription
\* has committed the trial, so the marking alone is pending.
UndoneByMarkFailure_WithTrial(mark_ok) ==
    IF mark_ok THEN {} ELSE { "mark", "trial" }

UndoneByMarkFailure(mark_ok) == IF mark_ok THEN {} ELSE { "mark" }

\* _activate_trial for user u: the record of the call and the subscription
\* rows it leaves.
ActivateTrial(u, entry, i18n_ok, has_message, result, ui_ok, mark_ok) ==
    LET had == subs[u].had
        enabled == settings.TRIAL_ENABLED
        pre == TrialPrecheck(i18n_ok, has_message, enabled, had)
        base == [ TrialIdle EXCEPT !.user = u, !.entry = entry,
                                   !.had_before = had,
                                   !.i18n_ok = i18n_ok,
                                   !.has_message = has_message ]
        menu == SendMainMenu(i18n_ok, TRUE, has_message, TRUE, ui_ok,
                             enabled, had)
        after == ActivateTrialSubscription(subs, u, result)
    IN  CASE pre = "service_error" ->
               [ call |-> [ base EXCEPT !.alert = "error_occurred_try_again" ],
                 subs |-> subs ]
          [] pre = "disabled" ->
               [ call |-> [ base EXCEPT !.alert = "trial_feature_disabled",
                                        !.screen = menu.screen,
                                        !.show_trial = menu.show_trial,
                                        !.via = menu.via ],
                 subs |-> subs ]
          [] pre = "already_had" ->
               [ call |-> [ base EXCEPT
                              !.alert = "trial_already_had_subscription_or_trial",
                              !.screen = menu.screen,
                              !.show_trial = menu.show_trial,
                              !.via = menu.via ],
                 subs |-> subs ]
          [] OTHER ->
               IF result.kind = "activated"
               THEN [ call |-> [ base EXCEPT
                                   !.activate_called = TRUE,
                                   !.alert = "trial_activated_alert",
                                   !.screen = "trial_activated_details_message",
                                   !.via = IF ui_ok THEN "edit_text"
                                           ELSE "send_clean",
                                   !.marked = mark_ok ],
                      subs |-> IF "trial" \in UndoneByMarkFailure(mark_ok)
                               THEN subs ELSE after ]
               ELSE [ call |-> [ base EXCEPT
                                   !.activate_called = TRUE,
                                   !.alert = IF result.kind = "failed"
                                                /\ result.message_key # ""
                                             THEN result.message_key
                                             ELSE "trial_activation_failed",
                                   !.screen = "trial_failure_with_main_menu",
                                   !.show_trial = (enabled /\ ~after[u].had),
                                   !.via = IF ui_ok THEN "edit_text"
                                           ELSE "send_clean" ],
                      subs |-> after ]

TrialHandler(u, entry) ==
    \E i18n_ok, has_message, ui_ok, mark_ok \in BOOLEAN :
    \E result \in ActivationResults :
        LET out == ActivateTrial(u, entry, i18n_ok, has_message, result,
                                 ui_ok, mark_ok)
        IN  /\ trial_call' = out.call
            /\ subs' = out.subs
            /\ attribution' = IF out.call.marked
                               THEN MarkTrialActivated(attribution, u)
                               ELSE attribution
            /\ UNCHANGED TrialFrame

\* trial_action:request
request_trial_confirmation_handler(u) ==
    TrialHandler(u, "trial_action:request")

\* trial_action:confirm_activate
confirm_activate_trial_handler(u) ==
    TrialHandler(u, "trial_action:confirm_activate")

\* main_action:cancel_trial
cancel_trial_activation(u) ==
    \E i18n_ok, has_message, ui_ok \in BOOLEAN :
        LET menu == SendMainMenu(i18n_ok, TRUE, has_message, TRUE, ui_ok,
                                 settings.TRIAL_ENABLED, subs[u].had)
        IN  /\ trial_call' =
                 [ TrialIdle EXCEPT !.user = u,
                                    !.entry = "main_action:cancel_trial",
                                    !.had_before = subs[u].had,
                                    !.i18n_ok = i18n_ok,
                                    !.has_message = has_message,
                                    !.alert = menu.alert,
                                    !.screen = menu.screen,
                                    !.show_trial = menu.show_trial,
                                    !.via = menu.via ]
            /\ UNCHANGED <<subs, attribution>>
            /\ UNCHANGED TrialFrame

\* A subscription runs out: its end date is compared with the clock when
\* it is read.
SubscriptionExpires(u) ==
    /\ subs[u].active
    /\ subs' = [ subs EXCEPT ![u].active = FALSE ]
    /\ UNCHANGED <<users, fsm_state, trial_call, start_call>>
    /\ UNCHANGED <<settings, ref_call, promo_call, RenewVars, GateVars, CleanVars,
                 date_call, UtilVars, attribution>>

\* ---------------------------------------------------------- channel gate

\* The ids a required channel can have.
ChannelIds == { 1, 2 }

\* The clock runs from 1 to MaxClock.
MaxClock == 2

\* The channel_subscription_* fields of a User never checked;
\* checked_at 0 stands for None.
NoCache ==
    [ verified |-> FALSE, verified_for |-> NoChannel, checked_at |-> 0 ]

\* What bot.get_chat_member gives: a member with a ChatMemberStatus, or an
\* error.
PlatformOutcomes ==
    { "creator", "administrator", "member", "restricted", "left", "kicked",
      "TelegramBadRequest", "TelegramForbiddenError", "TelegramAPIError" }

\* Line 167.
AllowedStatuses == { "creator", "administrator", "member", "restricted" }

\* Lines 162-171: is_member after the query.
IsMember(platform) == platform \in AllowedStatuses

\* Lines 172-181: TelegramForbiddenError and any other TelegramAPIError
\* return before update_user; TelegramBadRequest falls through to it.
GateWrites_Always(platform) == TRUE

GateWrites(platform) ==
    platform \notin { "TelegramForbiddenError", "TelegramAPIError" }

\* Lines 154-155: the cached verification that lets the user pass.
CacheHit_AnyChannel(cache, required) == cache.verified

CacheHit(cache, required) ==
    cache.verified /\ cache.verified_for = required

\* Lines 125-156: how far the gate gets before it asks the platform.
\* db_user: whether the caller passed a row; lookup_ok: whether the gate's
\* own get_user_by_id returns (it finds no row, as the caller found none).
GateBefore(required, admins, is_callback, has_message, user_id, db_user, lookup_ok, cache) ==
    IF required = NoChannel THEN [ step |-> "no_channel", result |-> TRUE ]
    ELSE IF is_callback /\ ~has_message
    THEN [ step |-> "no_bot", result |-> FALSE ]
    ELSE IF user_id \in admins THEN [ step |-> "admin", result |-> TRUE ]
    ELSE IF ~db_user /\ ~lookup_ok
    THEN [ step |-> "lookup_failed", result |-> FALSE ]
    ELSE IF ~db_user THEN [ step |-> "no_user", result |-> TRUE ]
    ELSE IF CacheHit(cache, required)
    THEN [ step |-> "cached", result |-> TRUE ]
    ELSE [ step |-> "query", result |-> FALSE ]

\* Whether the gate calls bot.get_chat_member.
GateQueries(required, admins, is_callback, has_message, user_id, db_user, lookup_ok, cache) ==
    GateBefore(required, admins, is_callback, has_message, user_id, db_user,
               lookup_ok, cache).step = "query"

\* The platform outcomes one run of the gate can meet.
GateOutcomes(queries) == IF queries THEN PlatformOutcomes ELSE { "" }

\* ensure_required_channel_subscription: the value returned, the fields
\* written to the User, the alert answered and the prompt shown.
EnsureRequiredChannelSubscription(required, admins, is_callback, has_message, user_id, db_user, lookup_ok, cache, platform, now) ==
    LET b == GateBefore(required, admins, is_callback, has_message, user_id,
                        db_user, lookup_ok, cache)
        is_member == IsMember(platform)
        quiet == [ result |-> b.result, step |-> b.step, queried |-> FALSE,
                   platform |-> "", wrote |-> FALSE, cache |-> cache,
                   alert |-> "", prompt |-> "" ]
    IN  IF b.step # "query" THEN quiet
        ELSE IF ~GateWrites(platform)
        THEN [ quiet EXCEPT
                 !.queried = TRUE,
                 !.platform = platform,
                 !.alert = IF is_callback
                           THEN "channel_subscription_check_failed" ELSE "" ]
        ELSE [ result |-> is_member,
               step |-> "query",
               queried |-> TRUE,
               platform |-> platform,
               wrote |-> TRUE,
               cache |-> [ verified |-> is_member,
                           verified_for |-> required,
                           checked_at |-> now ],
               alert |-> IF ~is_member /\ is_callback
                         THEN "channel_subscription_required" ELSE "",
               prompt |-> IF is_member THEN ""
                          ELSE IF is_callback THEN "edit_text" ELSE "answer" ]

GateIdle ==
    [ user |-> NoId, handler |-> "", has_message |-> TRUE, step |-> "",
      queried |-> FALSE, platform |-> "", result |-> FALSE, wrote |-> FALSE,
      alert |-> "", prompt |-> "", welcome |-> FALSE,
      promo_attempted |-> FALSE, screen |-> "", main_menu |-> FALSE,
      cache |-> NoCache ]

\* One run of the gate in a handler, with what the handler did after it;
\* cache: the cached fields of the User in the session when the gate returns.
GateCall(u, handler, has_message, g, alert, welcome, promo_attempted, screen, main_menu) ==
    [ user |-> u, handler |-> handler, has_message |-> has_message,
      step |-> g.step, queried |-> g.queried, platform |-> g.platform,
      result |-> g.result, wrote |-> g.wrote, alert |-> alert,
      prompt |-> g.prompt, welcome |-> welcome,
      promo_attempted |-> promo_attempted, screen |-> screen,
      main_menu |-> main_menu, cache |-> g.cache ]

\* Lines 395-417 of verify_channel_subscription_callback: the welcome goes
\* to callback.message (an error is swallowed), the alert is answered and
\* send_main_menu is called.
VerifyTail(verified, disable_welcome, has_message) ==
    IF ~verified
    THEN [ welcome |-> FALSE, alert |-> "", main_menu |-> FALSE ]
    ELSE [ welcome |-> ~disable_welcome /\ has_message,
           alert |-> "channel_subscription_verified_success",
           main_menu |-> TRUE ]

\* channel_subscription:verify from user u.  The lookup of line 390
\* returns; the i18n instance is present.
verify_channel_subscription_callback(u) ==
    \E has_message, lookup_ok \in BOOLEAN :
        LET required == settings.REQUIRED_CHANNEL_ID
            db_user == users[u].exists
            queries == GateQueries(required, settings.ADMIN_IDS, TRUE,
                                   has_message, u, db_user, lookup_ok,
                                   channel[u])
        IN  \E platform \in GateOutcomes(queries) :
              \E g \in { EnsureRequiredChannelSubscription(
                             required, settings.ADMIN_IDS, TRUE, has_message,
                             u, db_user, lookup_ok, channel[u], platform,
                             clock) } :
                LET t == VerifyTail(g.result, settings.DISABLE_WELCOME_MESSAGE,
                                    has_message)
                    menu == SendMainMenu(TRUE, TRUE, has_message, TRUE, TRUE,
                                         settings.TRIAL_ENABLED, subs[u].had)
                IN  /\ channel' = [ channel EXCEPT ![u] = g.cache ]
                    /\ gate_call' =
                          GateCall(u, "channel_subscription:verify",
                                   has_message, g,
                                   IF t.main_menu THEN t.alert ELSE g.alert,
                                   t.welcome, FALSE,
                                   IF t.main_menu THEN menu.screen ELSE "",
                                   t.main_menu)
                    /\ UNCHANGED GateFrame

\* Time passes.
Tick ==
    /\ clock < MaxClock
    /\ clock' = clock + 1
    /\ UNCHANGED <<settings, users, subs, fsm_state, trial_call, start_call,
                   ref_call, promo_call, RenewVars, channel, gate_call,
                   CleanVars, date_call, UtilVars, attribution>>

\* ----------------------------------------------------------------- start

\* The length of a referral code in the ref_ pattern of CommandStart.
RefCodeLen == 9

RefPrefix == << "r", "e", "f", "_" >>

\* user_dal.get_user_by_id: whether a row with this id exists.
GetUserById(usrs, pid) == pid \in UserIds /\ usrs[pid].exists

\* The referral code the data layer gave each user when it was created:
\* nine alphanumeric characters.
CodeTail == << "7", "k", "Q", "2", "m", "P", "9", "x" >>

CodeHeads == << "A", "u", "U", "b" >>

ReferralCodeOf(u) == << CodeHeads[((u - 1) % Len(CodeHeads)) + 1] >> \o CodeTail

\* user_dal.get_user_by_referral_code: the id of the user holding this code,
\* or NoId.
GetUserByReferralCode(usrs, code) ==
    IF \E v \in UserIds : usrs[v].exists /\ ReferralCodeOf(v) = code
    THEN CHOOSE v \in UserIds : usrs[v].exists /\ ReferralCodeOf(v) = code
    ELSE NoId

\* ^ref_((?:[uU][A-Za-z0-9]{9})|(?:[A-Za-z0-9]{9})|\d+)$ : group(1), and
\* whether args matches.
RefGroup(args) == SubSeq(args, Len(RefPrefix) + 1, Len(args))

RefMatches(args) ==
    LET g == RefGroup(args)
    IN  /\ StartsWith(args, RefPrefix)
        /\ \/ /\ Len(g) = RefCodeLen + 1
              /\ g[1] \in { "u", "U" }
              /\ \A i \in 2..Len(g) : IsAlnum(g[i])
           \/ /\ Len(g) = RefCodeLen
              /\ \A i \in 1..Len(g) : IsAlnum(g[i])
           \/ IsDigitStr(g)

\* Lines 247-249: the key of the referral-code lookup.
NormalizeRefCode(raw) ==
    LET normalized == Strip(raw)
    IN  IF Len(normalized) > 0 /\ Lower(normalized[1]) = "u"
        THEN Tail(normalized)
        ELSE normalized

\* Lines 242-245: a numeric id is a target when the flag is set, the id is
\* not the caller's and a user with it exists.
LegacyTarget_NoFlag(pid, user_id, legacy, usrs) ==
    IF pid # user_id /\ GetUserById(usrs, pid) THEN pid ELSE NoId

LegacyTarget_NoSelfCheck(pid, user_id, legacy, usrs) ==
    IF legacy /\ GetUserById(usrs, pid) THEN pid ELSE NoId

LegacyTarget(pid, user_id, legacy, usrs) ==
    IF legacy /\ pid # user_id /\ GetUserById(usrs, pid) THEN pid ELSE NoId

\* Lines 250-252: the holder of the code, unless it is the caller.
CodeTarget(key, user_id, usrs) ==
    LET ref_user == GetUserByReferralCode(usrs, key)
    IN  IF ref_user # NoId /\ ref_user # user_id THEN ref_user ELSE NoId

\* Digits of a legacy referral id: every id of the model, one beyond, with
\* and without a leading zero, and one nine-digit number.
IdDigits(n) == << DigitSeq[n + 1] >>

LegacyTokens ==
    { IdDigits(n) : n \in 1..(MaxUser + 1) }
        \cup { << "0" >> \o IdDigits(n) : n \in 1..MaxUser }
        \cup { [ i \in 1..RefCodeLen |-> IF i = RefCodeLen THEN "1" ELSE "0" ] }

\* Referral-code tokens: nine characters, bare or behind u / U, and tokens
\* the pattern refuses (eight characters, ten without the u).
CodeTokens ==
    { << h >> \o CodeTail : h \in Range(CodeHeads) }
        \cup { << "u", h >> \o CodeTail : h \in Range(CodeHeads) }
        \cup { << "U", h >> \o CodeTail : h \in { "A", "u" } }
        \cup { CodeTail, << "x", "A" >> \o CodeTail }

\* The arguments of /start: none, or ref_<token>.
RefPayloads ==
    { <<>> } \cup { RefPrefix \o t : t \in LegacyTokens \cup CodeTokens }

\* The arguments the whole handler is run on: none, and for every user the
\* numeric id, the bare code and the code behind u.
StartArgs ==
    { <<>> }
        \cup { RefPrefix \o IdDigits(v) : v \in UserIds }
        \cup { RefPrefix \o ReferralCodeOf(v) : v \in UserIds }
        \cup { RefPrefix \o << "u" >> \o ReferralCodeOf(v) : v \in UserIds }

\* ^promo_(\w+)$ of CommandStart.
PromoPrefix == << "p", "r", "o", "m", "o", "_" >>

PromoMatches(args) ==
    /\ StartsWith(args, PromoPrefix)
    /\ Len(args) > Len(PromoPrefix)
    /\ \A i \in (Len(PromoPrefix) + 1)..Len(args) : IsWordChar(args[i])

\* promo_match.group(1): the code behind the prefix.
PromoCodeOf(args) == SubSeq(args, Len(PromoPrefix) + 1, Len(args))

\* /start without arguments, with a promo deep link (a code, and a code
\* that is a word of SUSPICIOUS_SQL_KEYWORDS_REGEX), and with arguments
\* the promo pattern refuses (no code, a character outside \w).
PromoStartArgs ==
    { <<>>,
      PromoPrefix \o << "A", "B", "1" >>,
      PromoPrefix \o << "s", "y", "s", "o", "b", "j", "e", "c", "t", "s" >>,
      PromoPrefix,
      PromoPrefix \o << "A", "-", "B" >> }

\* ^(?!ref_|promo_)([A-Za-z0-9_\-]{2,64})$ of CommandStart.
AdMatches(args) ==
    /\ Len(args) >= 2
    /\ Len(args) <= 64
    /\ \A i \in 1..Len(args) : IsAlnum(args[i]) \/ args[i] \in { "_", "-" }
    /\ ~StartsWith(args, RefPrefix)
    /\ ~StartsWith(args, PromoPrefix)

\* /start without arguments, with an ad token, and with arguments the ad
\* pattern refuses (one character, a space, a referral prefix).
AdStartArgs ==
    { <<>>,
      << "a", "d", "_", "1" >>,
      << "x" >>,
      << "a", " ", "b" >>,
      RefPrefix \o << "x" >> }

\* What lines 239-249 read off the arguments alone.
ParseRef(args) ==
    LET raw == RefGroup(args)
        matches == RefMatches(args)
        numeric == matches /\ IsDigitStr(raw)
    IN  [ matches |-> matches,
          numeric |-> numeric,
          pid |-> IF numeric THEN IntOf(raw) ELSE NoId,
          key |-> IF matches /\ ~numeric THEN NormalizeRefCode(raw)
                  ELSE <<>> ]

RefTable ==
    [ args \in RefPayloads \cup StartArgs \cup PromoStartArgs
                  \cup AdStartArgs |->
        ParseRef(args) ]

\* Lines 235-252 of start_command_handler: the referral target of the
\* payload, with the branch taken and the key looked up.
ResolveReferral(args, user_id, legacy, usrs) ==
    LET p == RefTable[args]
    IN  IF ~p.matches
        THEN [ path |-> "no_ref", lookup_key |-> <<>>,
               referred_by_user_id |-> NoId ]
        ELSE IF p.numeric
        THEN [ path |-> "legacy", lookup_key |-> <<>>,
               referred_by_user_id |->
                   LegacyTarget(p.pid, user_id, legacy, usrs) ]
        ELSE [ path |-> "code", lookup_key |-> p.key,
               referred_by_user_id |-> CodeTarget(p.key, user_id, usrs) ]

RefIdle ==
    [ user |-> NoId, args |-> <<>>, path |-> "", lookup_key |-> <<>>,
      referred_by_user_id |-> NoId ]

\* The first step of /start from user u: lines 235-252.
resolve_referral(u) ==
    \E args \in RefPayloads :
        LET r == ResolveReferral(args, u, settings.LEGACY_REFS, users)
        IN  /\ ref_call' =
                 [ user |-> u, args |-> args, path |-> r.path,
                   lookup_key |-> r.lookup_key,
                   referred_by_user_id |-> r.referred_by_user_id ]
            /\ UNCHANGED RefFrame

\* The fields Telegram and the i18n middleware report for the caller.
Profiles == { "p1", "p2" }

StartIdle ==
    [ user |-> NoId, referred_by_user_id |-> NoId, call_ok |-> TRUE,
      outcome |-> "", ad |-> "", discarded |-> {}, promo_code |-> <<>> ]

\* Lines 301-305: is_active starts False and keeps it when the call raises.
IsActiveOrDefault(active_call_ok, active) ==
    IF active_call_ok THEN active ELSE FALSE

\* Lines 297-316: the row of an already registered user after the patch.
PatchedUser_Overwrite(db_user, target, profile, is_active) ==
    [ db_user EXCEPT
        !.referred_by_id = IF target # NoId /\ ~is_active THEN target ELSE @,
        !.profile = profile ]

PatchedUser(db_user, target, profile, is_active) ==
    [ db_user EXCEPT
        !.referred_by_id =
            IF target # NoId /\ db_user.referred_by_id = NoId /\ ~is_active
            THEN target
            ELSE @,
        !.profile = profile ]

\* Lines 254-255: whether promo_code_to_apply is set.
PromoTokenTable ==
    [ args \in StartArgs \cup PromoStartArgs \cup AdStartArgs |->
        PromoMatches(args) ]

\* Lines 257-258: whether ad_start_param is set.
AdTokenTable ==
    [ args \in StartArgs \cup PromoStartArgs \cup AdStartArgs |->
        AdMatches(args) ]

\* Lines 321-327, when there is an ad token: no campaign, an inactive one,
\* the attribution recorded and committed, or an exception of the lookup,
\* of ensure_attribution or of the commit, answered by a rollback.
AdOutcomes(has_ad) ==
    IF has_ad THEN { "no_campaign", "inactive", "recorded", "raises" }
    ELSE { "" }

\* ad_dal.ensure_attribution: creates the attribution if there is none.
EnsureAttribution(attr, u) ==
    IF attr[u] = "none" THEN [ attr EXCEPT ![u] = "recorded" ] ELSE attr

\* The writes of this /start the session loses.  The profile patch (line
\* 316) and the channel check (lines 183-187) are not committed where they
\* are made: the patch is lost to the rollback of line 327, unless line 325
\* committed it, and both are lost to the rollbacks of lines 372 and 374.
Discarded(patched, ad, gate_wrote, promo_attempted, apply) ==
    LET promo_rollback == promo_attempted /\ apply # "success"
    IN  (IF patched /\ (ad = "raises" \/ (ad # "recorded" /\ promo_rollback))
         THEN { "patch" } ELSE {})
          \cup (IF gate_wrote /\ promo_rollback THEN { "channel" } ELSE {})

\* PromoCodeService.apply_promo_code in /start, when it is called: success,
\* failure, or an exception.
AutoPromoOutcomes(attempted) ==
    IF attempted THEN { "success", "failure", "raise" } ELSE { "" }

\* The promo service grants the subscription period; line 348 commits it.
SubsAfterAutoPromo(s, u, applied) ==
    IF applied THEN [ s EXCEPT ![u] = [ had |-> TRUE, active |-> TRUE ] ] ELSE s

\* Lines 329-378: what /start does after the channel gate.
StartTail_IgnoresGate(passed, disable_welcome, has_promo, apply) ==
    IF has_promo /\ apply = "success"
    THEN [ welcome |-> ~disable_welcome, promo_attempted |-> TRUE,
           applied |-> TRUE, screen |-> "promo_code_applied_success_full",
           main_menu |-> FALSE ]
    ELSE [ welcome |-> ~disable_welcome, promo_attempted |-> has_promo,
           applied |-> FALSE, screen |-> "main_menu", main_menu |-> TRUE ]

StartTail(passed, disable_welcome, has_promo, apply) ==
    IF ~passed
    THEN [ welcome |-> FALSE, promo_attempted |-> FALSE, applied |-> FALSE,
           screen |-> "", main_menu |-> FALSE ]
    ELSE IF has_promo /\ apply = "success"
    THEN [ welcome |-> ~disable_welcome, promo_attempted |-> TRUE,
           applied |-> TRUE, screen |-> "promo_code_applied_success_full",
           main_menu |-> FALSE ]
    ELSE [ welcome |-> ~disable_welcome, promo_attempted |-> has_promo,
           applied |-> FALSE, screen |-> "main_menu", main_menu |-> TRUE ]

\* start_command_handler on one message.  call_ok: create_user (a new user)
\* or has_active_subscription (a registered one) does not raise; it can be
\* false only where one of them is called.  The i18n
\* instance is present and the sends succeed; what the session still holds
\* when the handler returns is committed.  The messages in the chat are
\* left to the action that calls this.
StartCommand(u, args, profile, call_ok) ==
  \E target \in { ResolveReferral(args, u, settings.LEGACY_REFS, users)
                      .referred_by_user_id } :
    LET has_promo == ~RefTable[args].matches /\ PromoTokenTable[args]
        has_ad == ~RefTable[args].matches /\ ~has_promo /\ AdTokenTable[args]
        db_user == users[u]
        is_active == IsActiveOrDefault(call_ok, subs[u].active)
        row == IF ~db_user.exists
               THEN [ exists |-> TRUE, referred_by_id |-> target,
                      profile |-> profile ]
               ELSE PatchedUser(db_user, target, profile, is_active)
        patched == db_user.exists /\ row # db_user
        log == [ StartIdle EXCEPT !.user = u,
                                  !.referred_by_user_id = target,
                                  !.call_ok = call_ok ]
        required == settings.REQUIRED_CHANNEL_ID
        queries == GateQueries(required, settings.ADMIN_IDS, FALSE, TRUE, u,
                               TRUE, TRUE, channel[u])
        \* create_user (line 273) or has_active_subscription (line 303)
        \* is called.
        calls == \/ ~db_user.exists
                 \/ (target # NoId /\ db_user.referred_by_id = NoId)
    IN  /\ call_ok \/ calls
        /\ fsm_state' = [ fsm_state EXCEPT ![u] = "none" ]
        /\ IF ~db_user.exists /\ ~call_ok
           THEN /\ users' = users
                /\ start_call' =
                      [ log EXCEPT
                          !.outcome = "error_occurred_processing_request" ]
                /\ gate_call' = [ GateIdle EXCEPT !.user = u, !.handler = "start" ]
                /\ UNCHANGED <<subs, channel, attribution>>
           ELSE \E ad \in AdOutcomes(has_ad) :
                \E platform \in GateOutcomes(queries) :
                \E g \in { EnsureRequiredChannelSubscription(
                             required, settings.ADMIN_IDS, FALSE, TRUE,
                             u, TRUE, TRUE, channel[u], platform, clock) } :
                \E apply \in AutoPromoOutcomes(g.result /\ has_promo) :
                \E t \in { StartTail(g.result,
                                     settings.DISABLE_WELCOME_MESSAGE,
                                     has_promo, apply) } :
                \E d \in { Discarded(patched, ad, g.wrote,
                                     t.promo_attempted, apply) } :
                    /\ users' = IF "patch" \in d THEN users
                                ELSE [ users EXCEPT ![u] = row ]
                    /\ attribution' = IF ad = "recorded"
                                      THEN EnsureAttribution(attribution, u)
                                      ELSE attribution
                    /\ channel' = IF "channel" \in d THEN channel
                                  ELSE [ channel EXCEPT ![u] = g.cache ]
                    /\ subs' = SubsAfterAutoPromo(subs, u, t.applied)
                    /\ start_call' =
                          [ log EXCEPT
                              !.outcome =
                                  IF ~db_user.exists THEN "created"
                                  ELSE IF ~g.result
                                  THEN "channel_subscription_required"
                                  ELSE t.screen,
                              !.ad = ad,
                              !.discarded = d,
                              !.promo_code = IF t.promo_attempted
                                             THEN PromoCodeOf(args)
                                             ELSE <<>> ]
                    /\ gate_call' =
                          GateCall(u, "start", TRUE, g, g.alert, t.welcome,
                                   t.promo_attempted, t.screen, t.main_menu)

\* /start with no argument or a referral deep link.
start_command_handler(u) ==
    \E args \in StartArgs, profile \in Profiles, call_ok \in BOOLEAN :
        /\ StartCommand(u, args, profile, call_ok)
        /\ UNCHANGED StartFrame

\* /start with no argument or a promo deep link.
start_command_handler_promo(u) ==
    \E args \in PromoStartArgs, profile \in Profiles, call_ok \in BOOLEAN :
        /\ StartCommand(u, args, profile, call_ok)
        /\ UNCHANGED StartFrame


\* /start with no argument or an ad token.
start_command_handler_ad(u) ==
    \E args \in AdStartArgs, profile \in Profiles, call_ok \in BOOLEAN :
        /\ StartCommand(u, args, profile, call_ok)
        /\ UNCHANGED StartFrame
\* ----------------------------------------------------------------- promo

\* MAX_PROMO_CODE_INPUT_LENGTH
MAX_PROMO_CODE_INPUT_LENGTH == 100

\* SUSPICIOUS_SQL_KEYWORDS_REGEX: each alternative is a, white space of any
\* length, b; the letters are matched in either case.
SqlKeywords ==
    { [ a |-> << "D", "R", "O", "P" >>,
        b |-> << "T", "A", "B", "L", "E" >> ],
      [ a |-> << "D", "E", "L", "E", "T", "E" >>,
        b |-> << "F", "R", "O", "M" >> ],
      [ a |-> << "A", "L", "T", "E", "R" >>,
        b |-> << "T", "A", "B", "L", "E" >> ],
      [ a |-> << "T", "R", "U", "N", "C", "A", "T", "E" >>,
        b |-> << "T", "A", "B", "L", "E" >> ],
      [ a |-> << "U", "N", "I", "O", "N" >>,
        b |-> << "S", "E", "L", "E", "C", "T" >> ],
      [ a |-> << ";" >>,
        b |-> << "S", "E", "L", "E", "C", "T" >> ],
      [ a |-> << ";" >>,
        b |-> << "I", "N", "S", "E", "R", "T" >> ],
      [ a |-> << ";" >>,
        b |-> << "U", "P", "D", "A", "T", "E" >> ],
      [ a |-> << ";" >>,
        b |-> << "D", "E", "L", "E", "T", "E" >> ],
      [ a |-> << "X", "P", "_", "C", "M", "D", "S", "H", "E", "L", "L" >>,
        b |-> <<>> ],
      [ a |-> << "S", "Y", "S", "D", "A", "T", "A", "B", "A", "S", "E", "S" >>,
        b |-> <<>> ],
      [ a |-> << "S", "Y", "S", "O", "B", "J", "E", "C", "T", "S" >>,
        b |-> <<>> ],
      [ a |-> << "I", "N", "F", "O", "R", "M", "A", "T", "I", "O", "N", "_", "S", "C", "H", "E", "M", "A" >>,
        b |-> <<>> ] }

\* A word boundary (\b) before position i of s: exactly one of the
\* characters on its two sides is a word character.
WordBoundary(s, i) ==
    LET left == i > 1 /\ i - 1 <= Len(s) /\ IsWordChar(s[i - 1])
        right == i >= 1 /\ i <= Len(s) /\ IsWordChar(s[i])
    IN  left # right

\* s[i:] starts with p, letters compared without case (re.IGNORECASE).
HasAtNoCase(s, i, p) ==
    /\ i >= 1
    /\ i + Len(p) - 1 <= Len(s)
    /\ \A k \in 1..Len(p) : Upper(s[i + k - 1]) = Upper(p[k])

\* \b a \s* b \b matches s from position i.
KeywordMatchesAt(s, i, kw) ==
    /\ WordBoundary(s, i)
    /\ HasAtNoCase(s, i, kw.a)
    /\ \E n \in 0..Len(s) :
          /\ Len(kw.b) = 0 => n = 0
          /\ \A k \in 1..n :
                i + Len(kw.a) + k - 1 <= Len(s)
                    /\ IsSpace(s[i + Len(kw.a) + k - 1])
          /\ HasAtNoCase(s, i + Len(kw.a) + n, kw.b)
          /\ WordBoundary(s, i + Len(kw.a) + n + Len(kw.b))

\* SUSPICIOUS_SQL_KEYWORDS_REGEX.search(s)
SuspiciousSqlKeywords(s) ==
    \E kw \in SqlKeywords : \E i \in 1..Len(s) : KeywordMatchesAt(s, i, kw)

\* SUSPICIOUS_CHARS_REGEX.search(s): (--|#\s|;|\*\/|\/\*)
SuspiciousChars(s) ==
    \E i \in 1..Len(s) :
        \/ HasAt(s, i, << "-", "-" >>)
        \/ s[i] = "#" /\ i < Len(s) /\ IsSpace(s[i + 1])
        \/ s[i] = ";"
        \/ HasAt(s, i, << "*", "/" >>)
        \/ HasAt(s, i, << "/", "*" >>)

\* Lines 131-148: the text the handler works on and whether it refuses it.
IsSuspicious_NoLengthCap(code_input) ==
    \/ Len(code_input) = 0
    \/ SuspiciousSqlKeywords(code_input)
    \/ SuspiciousChars(code_input)

IsSuspicious(code_input) ==
    \/ Len(code_input) = 0
    \/ Len(code_input) > MAX_PROMO_CODE_INPUT_LENGTH
    \/ SuspiciousSqlKeywords(code_input)
    \/ SuspiciousChars(code_input)

\* A run of n letters.
Letters(n) == [ i \in 1..n |-> "A" ]

\* Texts the validation lets through.
AcceptedTexts ==
    { << "P", "R", "O", "M", "O", "2", "0", "2", "4" >>,
      << " ", "a", "b", "c", " " >>,
      << "S", "A", "V", "E", "_", "1", "0" >>,
      << "d", "r", "o", "p" >>,
      << "x", "D", "R", "O", "P", " ", "T", "A", "B", "L", "E" >>,
      << "D", "R", "O", "P", " ", "T", "A", "B", "L", "E", "s" >>,
      << "m", "y", "_", "s", "y", "s", "o", "b", "j", "e", "c", "t", "s" >>,
      << "a", "#", "b" >>,
      << "a", "b", "#", " " >>,
      << "a", "-", "b" >>,
      << "a", "*", "b", "/", "c" >> }

\* Texts the validation refuses.
RefusedTexts ==
    { << " ", " " >>,
      << "D", "R", "O", "P", " ", "T", "A", "B", "L", "E" >>,
      << "d", "r", "o", "p", " ", " ", "t", "a", "b", "l", "e", " ", "x" >>,
      << "D", "r", "o", "p", "T", "a", "b", "l", "e" >>,
      << "d", "e", "l", "e", "t", "e", " ", "f", "r", "o", "m" >>,
      << "A", "l", "t", "e", "r", " ", "T", "a", "b", "l", "e" >>,
      << "T", "R", "U", "N", "C", "A", "T", "E", "\t", "T", "A", "B", "L", "E" >>,
      << "u", "n", "i", "o", "n", " ", "s", "e", "l", "e", "c", "t" >>,
      << "a", " ", "x", "p", "_", "c", "m", "d", "s", "h", "e", "l", "l" >>,
      << "S", "y", "s", "D", "a", "t", "a", "b", "a", "s", "e", "s" >>,
      << "s", "y", "s", "o", "b", "j", "e", "c", "t", "s" >>,
      << "I", "n", "f", "o", "r", "m", "a", "t", "i", "o", "n", "_", "S", "c", "h", "e", "m", "a" >>,
      << "a", ";", "b" >>,
      << "a", ";", " ", "s", "e", "l", "e", "c", "t" >>,
      << "a", "-", "-", "b" >>,
      << "a", "#", " ", "b" >>,
      << "a", "/", "*", "b" >>,
      << "a", "*", "/", "b" >> }

\* Texts at the length cap: as long as the cap, one longer, and longer than
\* the cap only by the white space around the code.
LongTexts ==
    { Letters(MAX_PROMO_CODE_INPUT_LENGTH),
      Letters(MAX_PROMO_CODE_INPUT_LENGTH + 1),
      << " " >> \o Letters(MAX_PROMO_CODE_INPUT_LENGTH) \o << " " >> }

\* message.text of the messages that reach process_promo_code_input (F.text:
\* never empty).
PromoTexts == AcceptedTexts \cup RefusedTexts \cup LongTexts

ValidatePromoInput(text) ==
    LET code_input == Strip(text)
    IN  [ code_input |-> code_input, is_suspicious |-> IsSuspicious(code_input) ]

PromoTable == [ text \in PromoTexts |-> ValidatePromoInput(text) ]

\* datetime.strftime("%d.%m.%Y %H:%M:%S")
TwoDigits(n) == << DigitSeq[((n \div 10) % 10) + 1], DigitSeq[(n % 10) + 1] >>

FourDigits(n) == TwoDigits(n \div 100) \o TwoDigits(n % 100)

Strftime_MonthFirst(d) ==
    TwoDigits(d.month) \o << "." >> \o TwoDigits(d.day) \o << "." >>
        \o FourDigits(d.year) \o << " " >> \o TwoDigits(d.hour) \o << ":" >>
        \o TwoDigits(d.minute) \o << ":" >> \o TwoDigits(d.second)

Strftime(d) ==
    TwoDigits(d.day) \o << "." >> \o TwoDigits(d.month) \o << "." >>
        \o FourDigits(d.year) \o << " " >> \o TwoDigits(d.hour) \o << ":" >>
        \o TwoDigits(d.minute) \o << ":" >> \o TwoDigits(d.second)

NoDate ==
    [ year |-> 0, month |-> 0, day |-> 0, hour |-> 0, minute |-> 0,
      second |-> 0 ]

\* End times PromoCodeService hands back.
EndDates ==
    { [ year |-> 2026, month |-> 3, day |-> 7, hour |-> 9, minute |-> 5,
        second |-> 0 ],
      [ year |-> 2025, month |-> 12, day |-> 31, hour |-> 23, minute |-> 59,
        second |-> 58 ] }

\* PromoCodeService.apply_promo_code(session, user_id, code, lang): the pair
\* (True, new end time), the pair (False, localized message), or an error.
ApplySuccess(d) ==
    [ kind |-> "success", is_datetime |-> TRUE, end |-> d, message |-> "" ]

ApplyFailure ==
    [ kind |-> "failure", is_datetime |-> FALSE, end |-> NoDate,
      message |-> "promo_code_not_found_or_expired" ]

ApplyRaises ==
    [ kind |-> "raise", is_datetime |-> FALSE, end |-> NoDate, message |-> "" ]

\* SubscriptionService.get_active_subscription_details(session, user_id):
\* nothing, details without a link, details with a link, or an error.
Lookups == { "none", "no_link", "link", "raise" }

\* What the collaborators of one invocation do: apply_promo_code,
\* session.commit, session.rollback, get_active_subscription_details.
Collaborators(apply, commit_ok, rollback_ok, lookup) ==
    [ apply |-> apply, commit_ok |-> commit_ok, rollback_ok |-> rollback_ok,
      lookup |-> lookup ]

FirstDate == CHOOSE d \in EndDates : d.year = 2026

PromoScenarios ==
    { Collaborators(ApplySuccess(FirstDate), TRUE, TRUE, l) : l \in Lookups }
        \cup { Collaborators(ApplySuccess(d), TRUE, TRUE, "link") :
                 d \in EndDates }
        \cup { Collaborators(ApplySuccess(FirstDate), FALSE, TRUE, "none") }
        \cup { Collaborators(ApplyFailure, TRUE, b, "none") : b \in BOOLEAN }
        \cup { Collaborators(ApplyRaises, TRUE, TRUE, "none") }

NoReply ==
    [ key |-> "", code |-> <<>>, end_date |-> <<>>, config_link |-> "",
      markup |-> "" ]

PromoIdle ==
    [ user |-> NoId, text |-> <<>>, deps_ok |-> TRUE, code_input |-> <<>>,
      is_suspicious |-> FALSE, notified |-> FALSE, apply_called |-> FALSE,
      apply_result |-> "none", new_end_date |-> NoDate, lookup |-> "none",
      commits |-> 0, rollbacks |-> 0,
      raised |-> "", reply |-> NoReply, delivered |-> FALSE,
      state_cleared |-> FALSE ]

\* Lines 118-127: i18n or the promo service is missing.
ServiceErrorReply ==
    [ NoReply EXCEPT !.key = "Service error. Please try again later." ]

\* Lines 167-171: the reply to a refused input.
NotFoundReply(code_input) ==
    [ NoReply EXCEPT !.key = "promo_code_not_found",
                     !.code = UpperStr(code_input),
                     !.markup = "back_to_main_menu" ]

\* Lines 185-204: the reply to a redeemed code.
SuccessReply(result, lookup) ==
    LET new_end_date_set == result.is_datetime
        found == IF lookup = "link" THEN "https://sub.example/cfg" ELSE ""
        config_link ==
            IF found # "" THEN found ELSE "config_link_not_available"
    IN  [ NoReply EXCEPT
            !.key = "promo_code_applied_success_full",
            !.end_date = IF new_end_date_set THEN Strftime(result.end)
                         ELSE << "N", "/", "A" >>,
            !.config_link = config_link,
            !.markup = "connect_and_main" ]

\* Lines 205-213: the reply to a failed redemption is the service's message.
FailureReply(result) ==
    [ NoReply EXCEPT !.key = result.message, !.markup = "back_to_main_menu" ]

\* Lines 175-213: the session calls made around apply_promo_code, the call
\* that raised (if any) and the reply composed.
Redeem(c) ==
    CASE c.apply.kind = "raise" ->
            [ commits |-> 0, rollbacks |-> 0, raised |-> "apply_promo_code",
              reply |-> NoReply ]
      [] c.apply.kind = "success" /\ ~c.commit_ok ->
            [ commits |-> 1, rollbacks |-> 0, raised |-> "commit",
              reply |-> NoReply ]
      [] c.apply.kind = "success" /\ c.commit_ok /\ c.lookup = "raise" ->
            [ commits |-> 1, rollbacks |-> 0,
              raised |-> "get_active_subscription_details",
              reply |-> NoReply ]
      [] c.apply.kind = "success" /\ c.commit_ok /\ c.lookup # "raise" ->
            [ commits |-> 1, rollbacks |-> 0, raised |-> "",
              reply |-> SuccessReply(c.apply, c.lookup) ]
      [] c.apply.kind = "failure" /\ ~c.rollback_ok ->
            [ commits |-> 0, rollbacks |-> 1, raised |-> "rollback",
              reply |-> NoReply ]
      [] c.apply.kind = "failure" /\ c.rollback_ok ->
            [ commits |-> 0, rollbacks |-> 1, raised |-> "",
              reply |-> FailureReply(c.apply) ]

\* process_promo_code_input, as the record of what one invocation did, from
\* the message text, whether i18n and the promo service were injected,
\* settings.LOG_SUSPICIOUS_ACTIVITY, what the collaborators do, and whether
\* the admin notification and the reply get through.
\* state_cleared: state.clear() was reached (lines 126 and 228).
ProcessPromoCodeInput(text, deps_ok, log_suspicious, c, notify_ok, send_ok) ==
    LET v == PromoTable[text]
        r == Redeem(c)
        base == [ PromoIdle EXCEPT !.text = text, !.deps_ok = deps_ok ]
    IN  IF ~deps_ok
        THEN [ base EXCEPT !.reply = ServiceErrorReply,
                           !.delivered = send_ok,
                           !.state_cleared = TRUE ]
        ELSE IF v.is_suspicious
        THEN [ base EXCEPT
                 !.code_input = v.code_input,
                 !.is_suspicious = TRUE,
                 !.notified = log_suspicious /\ notify_ok,
                 !.reply = NotFoundReply(v.code_input),
                 !.delivered = send_ok,
                 !.state_cleared = TRUE ]
        ELSE [ base EXCEPT
                 !.code_input = v.code_input,
                 !.apply_called = TRUE,
                 !.apply_result = c.apply.kind,
                 !.new_end_date = c.apply.end,
                 !.lookup = c.lookup,
                 !.commits = r.commits,
                 !.rollbacks = r.rollbacks,
                 !.raised = r.raised,
                 !.reply = r.reply,
                 !.delivered = r.raised = "" /\ send_ok,
                 !.state_cleared = r.raised = "" ]

\* The promo service grants the subscription period in the session; the
\* commit persists it.
SubsAfterPromo(s, u, call) ==
    IF call.apply_result = "success" /\ call.commits = 1 /\ call.raised # "commit"
    THEN [ s EXCEPT ![u] = [ had |-> TRUE, active |-> TRUE ] ]
    ELSE s

\* prompt_promo_code_input (reached through main_action:apply_promo): the
\* prompt is shown by editing the message or, failing that, by send_clean;
\* then the user awaits a promo code.
prompt_promo_code_input(u) ==
    \E i18n_ok, has_message, edit_ok, send_ok \in BOOLEAN :
        /\ fsm_state' =
              IF i18n_ok /\ has_message /\ (edit_ok \/ send_ok)
              THEN [ fsm_state EXCEPT ![u] = "waiting_for_promo_code" ]
              ELSE fsm_state
        /\ UNCHANGED <<subs, promo_call>>
        /\ UNCHANGED PromoFrame

\* The inputs of one invocation: the text, whether i18n and the promo service
\* were injected, what the collaborators do, whether the admin notification
\* and the reply get through.  A choice the invocation never looks at is
\* listed once.
PromoInput(text, deps_ok, c, notify_ok, send_ok) ==
    [ text |-> text, deps_ok |-> deps_ok, c |-> c, notify_ok |-> notify_ok,
      send_ok |-> send_ok ]

AnyScenario == Collaborators(ApplyFailure, TRUE, TRUE, "none")

PromoInputs ==
    { PromoInput(text, FALSE, AnyScenario, TRUE, send_ok) :
        text \in PromoTexts, send_ok \in BOOLEAN }
        \cup { PromoInput(text, TRUE, AnyScenario, notify_ok, send_ok) :
                 text \in { t \in PromoTexts : PromoTable[t].is_suspicious },
                 notify_ok \in BOOLEAN, send_ok \in BOOLEAN }
        \cup { PromoInput(text, TRUE, c, TRUE, send_ok) :
                 text \in { t \in PromoTexts : ~PromoTable[t].is_suspicious },
                 c \in PromoScenarios, send_ok \in BOOLEAN }

\* Every invocation, computed once: the records of the calls for each value
\* of settings.LOG_SUSPICIOUS_ACTIVITY.
PromoRuns ==
    [ l \in BOOLEAN |->
        { ProcessPromoCodeInput(in.text, in.deps_ok, l, in.c, in.notify_ok,
                                in.send_ok) : in \in PromoInputs } ]

\* process_promo_code_input: a text message of a user awaiting a promo code.
process_promo_code_input(u) ==
    /\ fsm_state[u] = "waiting_for_promo_code"
    /\ \E run \in PromoRuns[settings.LOG_SUSPICIOUS_ACTIVITY] :
          LET call == [ run EXCEPT !.user = u ]
          IN  /\ promo_call' = call
              /\ subs' = SubsAfterPromo(subs, u, call)
              /\ fsm_state' =
                    IF call.state_cleared
                    THEN [ fsm_state EXCEPT ![u] = "none" ]
                    ELSE fsm_state
    /\ UNCHANGED PromoFrame

\* cancel_promo_input_via_button: "back to main menu" while awaiting a code.
cancel_promo_input_via_button(u) ==
    /\ fsm_state[u] = "waiting_for_promo_code"
    /\ \E i18n_ok \in BOOLEAN :
          fsm_state' =
              IF i18n_ok THEN [ fsm_state EXCEPT ![u] = "none" ]
              ELSE fsm_state
    /\ UNCHANGED <<subs, promo_call>>
    /\ UNCHANGED PromoFrame

\* ------------------------------------------------------------ auto-renew

\* Subscription ids of the model: 1..MaxSub.
MaxSub == 2

SubIds == 1..MaxSub

\* No row with this id: session.get(Subscription, sub_id) returns None.
NoSub ==
    [ exists |-> FALSE, user_id |-> NoId, provider |-> "",
      auto_renew_enabled |-> FALSE, active |-> FALSE ]

\* The rows the table holds at start-up: subscription s belongs to user
\* OwnerOf(s), so that callers and other users own rows.
OwnerOf(s) == ((s - 1) % MaxUser) + 1

SubRow(u, provider, auto_renew_enabled, active) ==
    [ exists |-> TRUE, user_id |-> u, provider |-> provider,
      auto_renew_enabled |-> auto_renew_enabled, active |-> active ]

SubRows(s) ==
    { NoSub,
      SubRow(OwnerOf(s), "yookassa", FALSE, TRUE),
      SubRow(OwnerOf(s), "yookassa", TRUE, TRUE),
      SubRow(OwnerOf(s), "yookassa", TRUE, FALSE),
      SubRow(OwnerOf(s), "tribute", FALSE, TRUE) }

SubTables ==
    { f \in [ SubIds -> UNION { SubRows(s) : s \in SubIds } ] :
        \A s \in SubIds : f[s] \in SubRows(s) }

\* str.split(sep) on a text, for a one-character separator.
RECURSIVE Split(_, _)
Split(s, sep) ==
    IF \A i \in 1..Len(s) : s[i] # sep
    THEN << s >>
    ELSE LET k == CHOOSE i \in 1..Len(s) :
                     s[i] = sep /\ \A j \in 1..(i - 1) : s[j] # sep
         IN  << SubSeq(s, 1, k - 1) >> \o Split(SubSeq(s, k + 1, Len(s)), sep)

\* str.split(sep, maxsplit): at most maxsplit cuts, the rest kept whole.
RECURSIVE SplitMax(_, _, _)
SplitMax(s, sep, maxsplit) ==
    IF maxsplit = 0 \/ \A i \in 1..Len(s) : s[i] # sep
    THEN << s >>
    ELSE LET k == CHOOSE i \in 1..Len(s) :
                     s[i] = sep /\ \A j \in 1..(i - 1) : s[j] # sep
         IN  << SubSeq(s, 1, k - 1) >>
                 \o SplitMax(SubSeq(s, k + 1, Len(s)), sep, maxsplit - 1)

TogglePrefix ==
    << "t", "o", "g", "g", "l", "e", "_", "a", "u", "t", "o", "r", "e", "n",
       "e", "w", ":" >>

ConfirmPrefix ==
    << "a", "u", "t", "o", "r", "e", "n", "e", "w", ":", "c", "o", "n", "f",
       "i", "r", "m", ":" >>

\* The payloads behind the prefixes: <id>:<0|1> for every subscription id
\* and one id no row has, and payloads the handlers cannot read.
RenewPayloads ==
    { IdDigits(s) \o << ":", e >> : s \in 1..(MaxSub + 1), e \in { "0", "1" } }
        \cup { << "1", ":", "2" >>, << "1" >>, << "x", ":", "1" >>,
               << "1", ":" >>, << "1", ":", "1", ":", "0" >> }

NoParse == [ ok |-> FALSE, sub_id |-> NoId, enable |-> FALSE ]

\* int(sub_id_str), bool(int(enable_str)) on the two fields; anything int()
\* refuses raises and is answered with error_try_again.
ParseFields(fields) ==
    IF Len(fields) = 2 /\ IsDigitStr(fields[1]) /\ IsDigitStr(fields[2])
    THEN [ ok |-> TRUE, sub_id |-> IntOf(fields[1]),
           enable |-> IntOf(fields[2]) # 0 ]
    ELSE NoParse

\* Lines 449-456: _, payload = data.split(":", 1); payload.split(":").
ParseToggle(data) ==
    LET parts == SplitMax(data, ":", 1)
    IN  IF Len(parts) # 2 THEN NoParse ELSE ParseFields(Split(parts[2], ":"))

\* Lines 500-506: _, _, sub_id_str, enable_str = data.split(":", 3).
ParseConfirm(data) ==
    LET parts == SplitMax(data, ":", 3)
    IN  IF Len(parts) # 4 THEN NoParse
        ELSE ParseFields(<< parts[3], parts[4] >>)

ToggleTable == [ p \in RenewPayloads |-> ParseToggle(TogglePrefix \o p) ]

ConfirmTable == [ p \in RenewPayloads |-> ParseConfirm(ConfirmPrefix \o p) ]

\* session.get(Subscription, sub_id)
GetSubscription(rows, sub_id) ==
    IF sub_id \in SubIds /\ rows[sub_id].exists THEN rows[sub_id] ELSE NoSub

\* Lines 460-472 and 510-522: the checks of a toggle or confirm request, in
\* the order the code makes them.  card_lookup: whether
\* user_has_saved_payment_method was called.
AutorenewGuard_NoCardCheck(sub, caller, enable, has_card) ==
    IF ~sub.exists \/ sub.user_id # caller
    THEN [ alert |-> "error_try_again", card_lookup |-> FALSE ]
    ELSE IF sub.provider = "tribute"
    THEN [ alert |-> "subscription_autorenew_not_supported_for_tribute",
           card_lookup |-> FALSE ]
    ELSE [ alert |-> "", card_lookup |-> FALSE ]

AutorenewGuard_NoOwnerCheck(sub, caller, enable, has_card) ==
    IF ~sub.exists
    THEN [ alert |-> "error_try_again", card_lookup |-> FALSE ]
    ELSE IF sub.provider = "tribute"
    THEN [ alert |-> "subscription_autorenew_not_supported_for_tribute",
           card_lookup |-> FALSE ]
    ELSE IF enable /\ ~has_card
    THEN [ alert |-> "autorenew_enable_requires_card", card_lookup |-> TRUE ]
    ELSE [ alert |-> "", card_lookup |-> enable ]

AutorenewGuard(sub, caller, enable, has_card) ==
    IF ~sub.exists \/ sub.user_id # caller
    THEN [ alert |-> "error_try_again", card_lookup |-> FALSE ]
    ELSE IF sub.provider = "tribute"
    THEN [ alert |-> "subscription_autorenew_not_supported_for_tribute",
           card_lookup |-> FALSE ]
    ELSE IF enable /\ ~has_card
    THEN [ alert |-> "autorenew_enable_requires_card", card_lookup |-> TRUE ]
    ELSE [ alert |-> "", card_lookup |-> enable ]

RenewIdle ==
    [ user |-> NoId, handler |-> "", parsed |-> FALSE, sub_id |-> NoId,
      enable |-> FALSE, alert |-> "", card_lookup |-> FALSE, screen |-> "",
      committed |-> FALSE ]

\* What one request did, from the parsed data and the guard.
RenewCall(u, handler, p, g) ==
    [ RenewIdle EXCEPT
        !.user = u, !.handler = handler, !.parsed = p.ok,
        !.sub_id = p.sub_id, !.enable = p.enable,
        !.alert = IF p.ok THEN g.alert ELSE "error_try_again",
        !.card_lookup = p.ok /\ g.card_lookup ]

\* toggle_autorenew:<id>:<0|1> -- the confirmation prompt (edited in place,
\* or sent when the edit fails).  The handler writes nothing.
toggle_autorenew_handler(u) ==
    \E payload \in RenewPayloads :
        LET p == ToggleTable[payload]
            sub == GetSubscription(subscriptions, p.sub_id)
            g == AutorenewGuard(sub, u, p.enable, cards[u])
            call == RenewCall(u, "toggle_autorenew", p, g)
        IN  /\ renew_call' =
                 [ call EXCEPT
                     !.screen = IF call.alert # "" THEN ""
                                ELSE IF p.enable
                                THEN "autorenew_confirm_enable"
                                ELSE "autorenew_confirm_disable" ]
            /\ UNCHANGED <<subscriptions, cards>>
            /\ UNCHANGED RenewFrame

\* autorenew:confirm:<id>:<0|1> -- update_subscription and commit, then the
\* subscription screen.  commit_ok: session.commit() does not raise.
confirm_autorenew_handler(u) ==
    \E payload \in RenewPayloads, commit_ok \in BOOLEAN :
        LET p == ConfirmTable[payload]
            sub == GetSubscription(subscriptions, p.sub_id)
            g == AutorenewGuard(sub, u, p.enable, cards[u])
            call == RenewCall(u, "autorenew:confirm", p, g)
            passed == call.alert = ""
        IN  /\ renew_call' =
                 [ call EXCEPT
                     !.alert = IF passed /\ commit_ok
                               THEN "subscription_autorenew_updated" ELSE @,
                     !.committed = passed /\ commit_ok,
                     !.screen = IF passed /\ commit_ok THEN "my_subscription"
                                ELSE "" ]
            /\ subscriptions' =
                 IF passed /\ commit_ok
                 THEN [ subscriptions EXCEPT
                          ![p.sub_id].auto_renew_enabled = p.enable ]
                 ELSE subscriptions
            /\ UNCHANGED cards
            /\ UNCHANGED RenewFrame

\* subscription_dal.get_active_subscription_by_user_id: the ids of the rows
\* it can return.
ActiveSubsOf(rows, u) ==
    { s \in SubIds : rows[s].exists /\ rows[s].user_id = u /\ rows[s].active }

\* Lines 563-565: the value autorenew:cancel writes.
CancelPayload_Flip(sub) == ~sub.auto_renew_enabled

CancelPayload(sub) == FALSE

\* autorenew:cancel -- switches auto-renew off on the caller's active
\* subscription.
autorenew_cancel_from_webhook_button(u) ==
    \E commit_ok \in BOOLEAN :
    \E s \in IF ActiveSubsOf(subscriptions, u) = {} THEN { NoId }
             ELSE ActiveSubsOf(subscriptions, u) :
        LET sub == GetSubscription(subscriptions, s)
            alert == IF ~sub.exists THEN "subscription_not_active"
                     ELSE IF sub.provider = "tribute"
                     THEN "subscription_autorenew_not_supported_for_tribute"
                     ELSE ""
            passed == alert = ""
        IN  /\ renew_call' =
                 [ RenewIdle EXCEPT
                     !.user = u, !.handler = "autorenew:cancel",
                     !.parsed = TRUE, !.sub_id = s,
                     !.alert = IF passed /\ commit_ok
                               THEN "subscription_autorenew_updated"
                               ELSE alert,
                     !.committed = passed /\ commit_ok,
                     !.screen = IF passed /\ commit_ok THEN "my_subscription"
                                ELSE "" ]
            /\ subscriptions' =
                 IF passed /\ commit_ok
                 THEN [ subscriptions EXCEPT
                          ![s].auto_renew_enabled = CancelPayload(sub) ]
                 ELSE subscriptions
            /\ UNCHANGED cards
            /\ UNCHANGED RenewFrame

\* -------------------------------------------------------- message cleaner

\* Two coroutines call send_clean for one chat; each calls it again and
\* again.
Tasks == { 1, 2 }

\* The message ids Telegram hands out in the chat: 1..MaxMessage.
MaxMessage == 3

\* _last_messages.get(chat_id) when the chat has no entry.
NoMessage == 0

\* bot.delete_message: a message still in the chat is removed, or the call
\* fails and the message stays; a message no longer there makes it fail.
DeleteOutcomes(present) == IF present THEN { "deleted", "failed" } ELSE { "failed" }

\* bot.send_message puts the message into the chat.
ChatAfterSend_Replace(messages, id) == { id }

ChatAfterSend(messages, id) == messages \cup { id }

\* Line 25: _last_messages[chat_id] = msg.message_id.
TrackedAfterSend_KeepFirst(tracked, id) ==
    IF tracked # NoMessage THEN tracked ELSE id

TrackedAfterSend(tracked, id) == id

\* Lines 22 and 8-13: send_clean enters delete_previous, which reads the
\* tracked id and awaits delete_message if there is one; the call may
\* overlap the calls of other coroutines.
send_clean_overlapping(p) ==
    /\ task[p].pc = "idle"
    /\ next_message_id <= MaxMessage
    /\ task' = [ task EXCEPT ![p] =
                   [ pc |-> IF last_messages # NoMessage
                            THEN "await_delete" ELSE "await_send",
                     msg_id |-> last_messages,
                     delete |-> "",
                     sent |-> NoMessage ] ]
    /\ UNCHANGED <<last_messages, chat_messages, next_message_id, undeleted,
                   clean_call>>
    /\ UNCHANGED CleanFrame

\* send_clean called while no other call for the chat is in progress.
send_clean(p) ==
    /\ \A q \in Tasks : task[q].pc = "idle"
    /\ send_clean_overlapping(p)

\* Lines 12-15: delete_message returns or raises; the error is swallowed.
delete_previous(p) ==
    /\ task[p].pc = "await_delete"
    /\ \E outcome \in DeleteOutcomes(task[p].msg_id \in chat_messages) :
           /\ chat_messages' =
                 IF outcome = "deleted"
                 THEN chat_messages \ { task[p].msg_id }
                 ELSE chat_messages
           /\ undeleted' =
                 IF outcome = "failed" /\ task[p].msg_id \in chat_messages
                 THEN undeleted \cup { task[p].msg_id }
                 ELSE undeleted
           /\ task' = [ task EXCEPT ![p].pc = "await_send",
                                    ![p].delete = outcome ]
    /\ UNCHANGED <<last_messages, next_message_id, clean_call>>
    /\ UNCHANGED CleanFrame

\* Line 24: Telegram accepts the message, or send_message raises and
\* send_clean with it.
send_message(p) ==
    /\ task[p].pc = "await_send"
    /\ \E ok \in BOOLEAN :
           IF ok
           THEN /\ chat_messages' = ChatAfterSend(chat_messages, next_message_id)
                /\ next_message_id' = next_message_id + 1
                /\ task' = [ task EXCEPT ![p].pc = "sent",
                                         ![p].sent = next_message_id ]
                /\ UNCHANGED clean_call
           ELSE /\ task' = [ task EXCEPT ![p].pc = "idle" ]
                /\ clean_call' =
                      [ task |-> p, msg_id |-> task[p].msg_id,
                        delete |-> task[p].delete, sent |-> NoMessage,
                        outcome |-> "raised" ]
                /\ UNCHANGED <<chat_messages, next_message_id>>
    /\ UNCHANGED <<last_messages, undeleted>>
    /\ UNCHANGED CleanFrame

\* Lines 24-27: the coroutine resumes with the message, records its id and
\* returns.
record_last_message(p) ==
    /\ task[p].pc = "sent"
    /\ last_messages' = TrackedAfterSend(last_messages, task[p].sent)
    /\ task' = [ task EXCEPT ![p].pc = "idle" ]
    /\ clean_call' =
          [ task |-> p, msg_id |-> task[p].msg_id,
            delete |-> task[p].delete, sent |-> task[p].sent,
            outcome |-> "returned" ]
    /\ UNCHANGED <<chat_messages, next_message_id, undeleted>>
    /\ UNCHANGED CleanFrame

\* ------------------------------------------------------------ date utils

\* months_to_add runs over -MaxMonths..MaxMonths.
MaxMonths == 14

\* Years with and without 29 February, next to a century that is a leap
\* year (2000) and one that is not (2100).
BaseYears == { 1999, 2023, 2024, 2099 }

\* datetime._DAYS_IN_MONTH and datetime._DAYS_BEFORE_MONTH.
DaysInMonthTable == << 31, 28, 31, 30, 31, 30, 31, 31, 30, 31, 30, 31 >>

DaysBeforeMonthTable ==
    << 0, 31, 59, 90, 120, 151, 181, 212, 243, 273, 304, 334 >>

\* datetime._is_leap.
IsLeap(year) == year % 4 = 0 /\ (year % 100 # 0 \/ year % 400 = 0)

\* datetime._days_in_month.
DaysInMonth(year, month) ==
    IF month = 2 /\ IsLeap(year) THEN 29 ELSE DaysInMonthTable[month]

\* datetime._ymd2ord: the ordinal of a date, 1 January of year 1 being 1.
Ymd2Ord(year, month, day) ==
    LET y == year - 1
    IN  y * 365 + (y \div 4) - (y \div 100) + (y \div 400)
          + DaysBeforeMonthTable[month]
          + (IF month > 2 /\ IsLeap(year) THEN 1 ELSE 0)
          + day

\* datetime._ord2ymd: the date of an ordinal.
Ord2Ymd(ordinal) ==
    LET n0 == ordinal - 1
        n400 == n0 \div 146097
        r400 == n0 % 146097
        n100 == r400 \div 36524
        r100 == r400 % 36524
        n4 == r100 \div 1461
        r4 == r100 % 1461
        n1 == r4 \div 365
        n == r4 % 365
        year == n400 * 400 + 1 + n100 * 100 + n4 * 4 + n1
        leapyear == n1 = 3 /\ (n4 # 24 \/ n100 = 3)
        leap(m) == IF m > 2 /\ leapyear THEN 1 ELSE 0
        month0 == (n + 50) \div 32
        preceding0 == DaysBeforeMonthTable[month0] + leap(month0)
        month == IF preceding0 > n THEN month0 - 1 ELSE month0
        preceding == DaysBeforeMonthTable[month] + leap(month)
    IN  IF n1 = 4 \/ n100 = 4
        THEN [ year |-> year - 1, month |-> 12, day |-> 31 ]
        ELSE [ year |-> year, month |-> month, day |-> n - preceding + 1 ]

\* The datetimes add_months is called on: the date, the time of day and
\* the tzinfo, for the dates datetime accepts.
ValidBaseDates ==
    { b \in { [ year |-> y, month |-> m, day |-> d, time |-> t,
                tzinfo |-> z ] :
                y \in BaseYears, m \in 1..12, d \in { 1, 15, 28, 29, 30, 31 },
                t \in { "00:00:00", "23:59:59.999999" },
                z \in { "None", "UTC" } } :
        b.day <= DaysInMonth(b.year, b.month) }

\* Lines 18-23: the last day of the month, the day before the first of the
\* next month.
LastDay(year, month) ==
    LET next_month_first ==
            IF month = 12
            THEN Ymd2Ord(year + 1, 1, 1)
            ELSE Ymd2Ord(year, month + 1, 1)
    IN  Ord2Ymd(next_month_first - 1).day

\* Line 24: min(day, last_day).
ClampedDay_NoClamp(day, last_day) == day

ClampedDay(day, last_day) == IF day < last_day THEN day ELSE last_day

\* add_months(base_dt, months_to_add).
AddMonths_SameYear(base_dt, months_to_add) ==
    LET month == ((base_dt.month + months_to_add - 1) % 12) + 1
    IN  [ base_dt EXCEPT
            !.month = month,
            !.day = ClampedDay(base_dt.day, LastDay(base_dt.year, month)) ]

AddMonths(base_dt, months_to_add) ==
    LET month0 == base_dt.month + months_to_add
        year == base_dt.year + ((month0 - 1) \div 12)
        month == ((month0 - 1) % 12) + 1
        clamped_day == ClampedDay(base_dt.day, LastDay(year, month))
    IN  [ base_dt EXCEPT !.year = year, !.month = month, !.day = clamped_day ]

NoDatetime ==
    [ year |-> 0, month |-> 0, day |-> 0, time |-> "", tzinfo |-> "" ]

\* One call of add_months.
add_months ==
    /\ ~date_call.done
    /\ date_call' =
          [ date_call EXCEPT
              !.result = AddMonths(date_call.base_dt, date_call.months_to_add),
              !.done = TRUE ]
    /\ UNCHANGED DateFrame


\* ------------------------------------------------------ pluralize_months

\* n runs over -MaxCount..MaxCount: beyond 111 and 121.
MaxCount == 125

\* The three forms of the Russian word for month that lines 38-43 return,
\* in Latin letters: the singular, the form after 2..4, the form after 5
\* and more.
MonthOne == "mesyats"
MonthFew == "mesyatsa"
MonthMany == "mesyatsev"

\* abs().
Abs(n) == IF n < 0 THEN 0 - n ELSE n

\* Line 37: 11 <= n_abs <= 19.
IsTeen_LastDigitOnly(n_abs) == FALSE

IsTeen(n_abs) == 11 <= n_abs /\ n_abs <= 19

\* pluralize_months(n).
PluralizeMonths(n) ==
    LET n_abs == Abs(n) % 100
        last_digit == n_abs % 10
    IN  IF IsTeen(n_abs) THEN MonthMany
        ELSE IF last_digit = 1 THEN MonthOne
        ELSE IF 2 <= last_digit /\ last_digit <= 4 THEN MonthFew
        ELSE MonthMany

\* One call of pluralize_months.
pluralize_months ==
    /\ ~plural_call.done
    /\ plural_call' =
          [ plural_call EXCEPT
              !.result = PluralizeMonths(plural_call.n), !.done = TRUE ]
    /\ UNCHANGED PluralFrame

\* ------------------------------------------------- payment-method titles

\* Python's None for an optional str; a str is a sequence of characters.
NoStr == << "<None>" >>

\* bool(s) of an optional str: neither None nor empty.
Truthy(s) == s # NoStr /\ s # << >>

\* s or "".
OrEmpty(s) == IF s = NoStr THEN << >> ELSE s

\* str.lower().
LowerStr(s) == [ i \in DOMAIN s |-> Lower(s[i]) ]

\* p in s.
Contains(s, p) == \E i \in 1..Len(s) : HasAt(s, i, p)

\* Lines 26-28: _is_yoomoney_network.
IsYoomoneyNetwork_CaseSensitive(network) ==
    Contains(OrEmpty(network), << "y", "o", "o", "m", "o", "n", "e", "y" >>)

IsYoomoneyNetwork(network) ==
    LET s == LowerStr(OrEmpty(network))
    IN  \/ Contains(s, << "y", "o", "o", "m", "o", "n", "e", "y" >>)
        \/ Contains(s, << "y", "o", "o", " ", "m", "o", "n", "e", "y" >>)
        \/ Contains(s, << "y", "o", "o", "-", "m", "o", "n", "e", "y" >>)

\* Lines 31-33: _extract_last4: every digit of the text, in order, and the
\* last four of them if there are four.
ExtractLast4_FirstFour(text) ==
    LET digits == SelectSeq(text, IsDigit)
    IN  IF Len(digits) >= 4 THEN SubSeq(digits, 1, 4) ELSE NoStr

ExtractLast4(text) ==
    LET digits == SelectSeq(text, IsDigit)
    IN  IF Len(digits) >= 4
        THEN SubSeq(digits, Len(digits) - 3, Len(digits))
        ELSE NoStr

\* get_text(key, **kwargs): the key and the arguments the text is built
\* from; an argument the key does not take is None.
GetText(key, network, last4) ==
    [ key |-> key, network |-> network, last4 |-> last4 ]

\* get_text of a key without arguments: the text of that key.
TextOf(key) == << key >>

\* Lines 36-51: _format_pm_title.
FormatPmTitle(network, last4) ==
    IF IsYoomoneyNetwork(network)
    THEN LET l4 == IF Truthy(last4) THEN last4
                   ELSE ExtractLast4(OrEmpty(network))
         IN  IF Truthy(l4)
             THEN GetText("payment_method_wallet_title", NoStr, l4)
             ELSE GetText("payment_method_wallet_title", NoStr, << "*", "*", "*", "*" >>)
    ELSE IF Truthy(last4)
    THEN GetText("payment_method_card_title",
                 IF Truthy(network) THEN network
                 ELSE TextOf("payment_network_card"),
                 last4)
    ELSE GetText("payment_method_generic_title",
                 IF Truthy(network) THEN network
                 ELSE TextOf("payment_network_generic"),
                 NoStr)

\* The network names the titles are formatted for: a name, then digits.
NetworkNames ==
    { << "y", "o", "o", "m", "o", "n", "e", "y" >>,
      << "Y", "o", "o", "M", "o", "n", "e", "y" >>,
      << "Y", "O", "O", "M", "O", "N", "E", "Y" >>,
      << "y", "o", "o", " ", "m", "o", "n", "e", "y" >>,
      << "Y", "o", "o", " ", "M", "o", "n", "e", "y" >>,
      << "y", "o", "o", "-", "m", "o", "n", "e", "y" >>,
      << "Y", "O", "O", "-", "M", "O", "N", "E", "Y" >>,
      << "y", "o", "o", "_", "m", "o", "n", "e", "y" >>,
      << "y", "o", "o", " ", " ", "m", "o", "n", "e", "y" >>,
      << "m", "y", " ", "y", "o", "o", "m", "o", "n", "e", "y", " ", "w", "a", "l", "l", "e", "t" >>,
      << "V", "i", "s", "a" >>,
      << "M", "a", "s", "t", "e", "r", "C", "a", "r", "d" >>,
      <<  >> }

NetworkDigits ==
    { <<  >>,
      << " ", "1", "2", " ", "3", "4", "5", "6", " ", "7" >>,
      << "4", "1", "0", "0", "1", "2", "3" >>,
      << " ", "1", "2", "3" >>,
      << " ", "1", "2", "3", "4", " ", "5", "6", "7", "8", "9" >> }

Networks == { NoStr } \cup { n \o d : n \in NetworkNames, d \in NetworkDigits }

Last4s == { NoStr, << >>, << "4", "2", "4", "2" >> }

\* One call of _format_pm_title.
format_pm_title ==
    /\ ~title_call.done
    /\ title_call' =
          [ title_call EXCEPT
              !.result = FormatPmTitle(title_call.network, title_call.last4),
              !.done = TRUE ]
    /\ UNCHANGED TitleFrame

\* -------------------------------------------------------- payment methods

\* The per-method table holds at most MaxMethods rows.
MaxMethods == 2

\* card_network and card_last4 as the gateway reports them: a card, and a
\* wallet whose number is part of the network name.
PmCards ==
    { [ card_network |-> << "V", "i", "s", "a" >>, card_last4 |-> << "4", "2", "4", "2" >> ],
      [ card_network |-> << "Y", "o", "o", "M", "o", "n", "e", "y", " ", "4", "1", "0", "0", "1", "2", "3" >>, card_last4 |-> NoStr ] }

\* provider_payment_method_id of the row with this method_id.
ProviderIdOf(method_id) == << "p" >> \o IdDigits(method_id)

\* The per-method table: method_id is the primary key, rows belong to the
\* caller or to another user.
PmTables ==
    UNION { { [ k \in 1..n |->
                  [ method_id |-> k,
                    user_id |-> f[k].user_id,
                    provider_payment_method_id |-> ProviderIdOf(k),
                    card |-> f[k].card,
                    is_default |-> f[k].is_default ] ] :
                f \in [ 1..n -> [ user_id : 1..2, card : PmCards,
                                  is_default : BOOLEAN ] ] } :
            n \in 0..MaxMethods }

\* The card of the legacy record.
LegacyCard ==
    [ card_network |-> << "M", "I", "R" >>,
      card_last4 |-> << "0", "0", "0", "1" >> ]

\* user_billing_dal.get_user_billing: None, or the legacy record, whose
\* yookassa_payment_method_id may be empty, the provider id of a row of
\* the table, or an id the table does not hold.
NoBilling ==
    [ exists |-> FALSE, yookassa_payment_method_id |-> NoStr,
      card |-> [ card_network |-> NoStr, card_last4 |-> NoStr ] ]

Billings ==
    { NoBilling }
        \cup { [ exists |-> TRUE, yookassa_payment_method_id |-> i,
                 card |-> LegacyCard ] :
                 i \in { NoStr, ProviderIdOf(1), << "o", "l", "d" >> } }

\* _format_pm_title of every card of the tables.
TitleOf ==
    [ c \in PmCards \cup { LegacyCard } |->
        FormatPmTitle(c.card_network, c.card_last4) ]

\* user_billing_dal.list_user_payment_methods: the rows of the user.
ListUserPaymentMethods(table, user_id) ==
    LET mine(r) == r.user_id = user_id
    IN  SelectSeq(table, mine)

\* Lines 87-91 and 644-648: the (id, title) pairs of the list, the default
\* method's title starred.
CardsOf(methods) ==
    [ i \in DOMAIN methods |->
        [ id |-> IdDigits(methods[i].method_id),
          star |-> methods[i].is_default,
          title |-> TitleOf[methods[i].card] ] ]

PmIdle ==
    [ user |-> NoId, handler |-> "", data |-> << >>, alert |-> "",
      listed |-> FALSE, billing_read |-> FALSE, screen |-> "",
      cards |-> << >>, page |-> 0, none_notice |-> FALSE, source |-> "",
      method_id |-> NoId, title |-> GetText("", NoStr, NoStr),
      keyboard_id |-> << >>, via |-> "", banner |-> "",
      committed |-> FALSE ]

\* callback.message.edit_text, and send_clean when it raises.
ShownVia(edit_ok) == IF edit_ok THEN "edit_text" ELSE "send_clean"

\* Lines 66-75, 192-201, 234-243, 335-345: the autopayments gate.
AutopaymentsGate_Off(stgs) == TRUE

AutopaymentsGate(stgs) == stgs.YOOKASSA_AUTOPAYMENTS_ENABLED

\* Lines 82-119 and 644-680: the list screen.
ListScreen(u, handler, data, page, edit_ok) ==
    LET cards_ == CardsOf(ListUserPaymentMethods(pm_methods, u))
    IN  [ PmIdle EXCEPT
            !.user = u, !.handler = handler, !.data = data,
            !.listed = TRUE, !.screen = "payment_methods_title",
            !.cards = cards_, !.page = page,
            !.none_notice = (Len(cards_) = 0),
            !.via = ShownVia(edit_ok) ]

\* pm:manage.
payment_methods_manage(u) ==
    \E edit_ok \in BOOLEAN :
        /\ pm_call' =
              IF ~AutopaymentsGate(settings)
              THEN [ PmIdle EXCEPT
                       !.user = u, !.handler = "pm:manage",
                       !.data = << "p", "m", ":", "m", "a", "n", "a", "g", "e" >>,
                       !.alert = "error_service_unavailable" ]
              ELSE ListScreen(u, "pm:manage", << "p", "m", ":", "m", "a", "n", "a", "g", "e" >>, 0, edit_ok)
        /\ UNCHANGED <<pm_methods, billing>>
        /\ UNCHANGED PmFrame

\* The callback data that reach payment_methods_list: pm:list: and a page.
\* int() is modelled on digits only; the other texts here make it raise.
ListPages == { << >>, << "0" >>, << "1" >>, << "x" >>, << "1", ":", "2" >> }

\* Lines 650-654: the page, 0 when it cannot be read.
PageOf(data) ==
    LET parts == SplitMax(data, ":", 2)
    IN  IF Len(parts) = 3 /\ IsDigitStr(parts[3]) THEN IntOf(parts[3])
        ELSE 0

\* pm:list:<page>.
payment_methods_list(u) ==
    \E p \in ListPages, edit_ok \in BOOLEAN :
        /\ pm_call' = ListScreen(u, "pm:list", << "p", "m", ":", "l", "i", "s", "t", ":" >> \o p,
                                 PageOf(<< "p", "m", ":", "l", "i", "s", "t", ":" >> \o p), edit_ok)
        /\ UNCHANGED <<pm_methods, billing>>
        /\ UNCHANGED PmFrame

\* The callback data that reach payment_method_view: they start with
\* pm:view.
ViewData ==
    { << "p", "m", ":", "v", "i", "e", "w" >> \o t :
        t \in { << >>, << ":" >>, << ":", "x" >>, << ":", "0", "1" >> }
                \cup { << ":" >> \o IdDigits(k) : k \in 1..(MaxMethods + 1) }
                \cup { << ":" >> \o ProviderIdOf(k) : k \in 1..MaxMethods }
                \cup { << ":" >> \o << "o", "l", "d" >> } }

\* Lines 364-370: the row the view shows.
SelectedMethod_AlwaysFirst(methods, data) == methods[1]

SelectedMethod(methods, data) ==
    LET parts == SplitMax(data, ":", 2)
        pm_id == IF Len(parts) >= 3 THEN parts[3]
                 ELSE IdDigits(methods[1].method_id)
        hit(m) == \/ IdDigits(m.method_id) = pm_id
                  \/ m.provider_payment_method_id = pm_id
        hits == SelectSeq(methods, hit)
    IN  IF Len(hits) > 0 THEN hits[1] ELSE methods[1]

\* Line 355: the per-method table is consulted when there is no legacy
\* record or its yookassa_payment_method_id is empty.
UsesMethodTable(b) == ~b.exists \/ ~Truthy(b.yookassa_payment_method_id)

\* Lines 347-475: payment_method_view past the gate.
ViewScreen(u, data, edit_ok) ==
    LET b == billing[u]
        methods == ListUserPaymentMethods(pm_methods, u)
        seen == [ PmIdle EXCEPT !.user = u, !.handler = "pm:view",
                                !.data = data, !.billing_read = TRUE ]
    IN  IF UsesMethodTable(b)
        THEN IF Len(methods) = 0
             THEN [ seen EXCEPT !.listed = TRUE,
                                !.alert = "payment_method_none" ]
             ELSE LET sel == SelectedMethod(methods, data)
                  IN  [ seen EXCEPT
                          !.listed = TRUE,
                          !.screen = "details",
                          !.source = "row",
                          !.method_id = sel.method_id,
                          !.title = TitleOf[sel.card],
                          !.keyboard_id = IdDigits(sel.method_id),
                          !.via = ShownVia(edit_ok) ]
        ELSE [ seen EXCEPT
                 !.screen = "details",
                 !.source = "legacy",
                 !.title = TitleOf[b.card],
                 !.keyboard_id = b.yookassa_payment_method_id,
                 !.via = ShownVia(edit_ok) ]

\* pm:view...  The bind date and the date of the last succeeded payment on
\* the screen are read from the row and from the ledger and are not part
\* of this state.
payment_method_view(u) ==
    \E data \in ViewData, edit_ok \in BOOLEAN :
        /\ pm_call' =
              IF ~AutopaymentsGate(settings)
              THEN [ PmIdle EXCEPT
                       !.user = u, !.handler = "pm:view", !.data = data,
                       !.alert = "error_service_unavailable" ]
              ELSE ViewScreen(u, data, edit_ok)
        /\ UNCHANGED <<pm_methods, billing>>
        /\ UNCHANGED PmFrame

\* ------------------------------------------------- core.py: the devices

\* The hardware ids of the devices the panel knows.
Hwids == { "h1", "h2" }

\* PanelApiService.get_user_devices: None, a dict without devices, or a
\* dict with the list of the devices (their hardware ids).  createdAt of
\* every device is an ISO date.
NoData == [ kind |-> "None", devices |-> <<>> ]

PanelAnswers ==
    { NoData, [ kind |-> "dict", devices |-> <<>> ] }
        \cup { [ kind |-> "list", devices |-> d ] :
                 d \in { <<>>, << "h1" >>, << "h2" >>, << "h1", "h2" >>,
                         << "h2", "h1" >> } }

\* max_devices of the active subscription: None, 0 or a number.
NoMax == -1

MaxDevicesValues == { NoMax, 0, 3 }

\* Lines 328-329: the device cap as shown.
MaxDevicesDisplay(max_devices_val) ==
    IF max_devices_val \in { NoMax, 0 } THEN << "devices_unlimited_label" >>
    ELSE << DigitSeq[max_devices_val + 1] >>

DevIdle ==
    [ user |-> NoId, handler |-> "", hwid |-> "", alert |-> "",
      screen |-> "", listed |-> <<>>, buttons |-> <<>>,
      max_devices |-> <<>>, via |-> "", disconnect_called |-> FALSE,
      ok |-> FALSE, commits |-> 0, raised |-> "" ]

\* Line 331: "not devices or not devices.get('devices')".
NoDevices(devices) == devices.kind = "None" \/ devices.devices = <<>>

\* Lines 331-355: the text of the device screen.
DevicesText(devices) ==
    IF NoDevices(devices) THEN "no_devices_details_found_message"
    ELSE "my_devices_details"

\* Lines 358-368: devices.get("devices") of the keyboard loop, which None
\* does not have.
KeyboardRaises_Never(devices) == FALSE

KeyboardRaises(devices) == devices.kind = "None"

\* my_devices_command_handler on the callback main_action:my_devices.
\* has_uid: the details of the active subscription carry the panel user id.
my_devices_command_handler(u) ==
    \E has_uid \in BOOLEAN, max_devices_val \in MaxDevicesValues,
       edit_ok \in BOOLEAN :
        LET devices == panel_devices[u]
            base == [ DevIdle EXCEPT !.user = u,
                                     !.handler = "main_action:my_devices" ]
        IN  /\ dev_call' =
                  IF ~settings.MY_DEVICES_SECTION_ENABLED
                  THEN [ base EXCEPT !.alert = "my_devices_feature_disabled" ]
                  ELSE IF ~subs[u].active \/ ~has_uid
                  THEN [ base EXCEPT !.alert = "subscription_not_active" ]
                  ELSE IF KeyboardRaises(devices)
                  THEN [ base EXCEPT !.raised = "AttributeError" ]
                  ELSE [ base EXCEPT
                           !.screen = DevicesText(devices),
                           !.listed = IF NoDevices(devices) THEN <<>>
                                      ELSE devices.devices,
                           !.buttons = devices.devices,
                           !.max_devices = MaxDevicesDisplay(max_devices_val),
                           !.via = IF edit_ok THEN "edit_text"
                                   ELSE "send_clean" ]
            /\ UNCHANGED <<panel_devices, DevFrame>>

\* The panel's list without the device of this hardware id.
Disconnected(devices, hwid) ==
    [ devices EXCEPT !.devices = SelectSeq(@, LAMBDA h : h # hwid) ]

\* Lines 414-429 after a successful disconnect: the commit and the status
\* screen of my_subscription_command_handler.
AfterDisconnect_NoRender(base, edit_ok) ==
    [ base EXCEPT !.ok = TRUE, !.commits = 1,
                  !.alert = "device_disconnected" ]

AfterDisconnect(base, edit_ok) ==
    [ base EXCEPT !.ok = TRUE, !.commits = 1,
                  !.alert = "device_disconnected",
                  !.screen = "my_subscription_details",
                  !.via = IF edit_ok THEN "edit_text" ELSE "send_message" ]

\* disconnect_device_handler on the callback disconnect_device:<hwid>.
\* ok: what PanelApiService.disconnect_device returns.
disconnect_device_handler(u) ==
    \E hwid \in Hwids, ok \in BOOLEAN, edit_ok \in BOOLEAN :
        LET base == [ DevIdle EXCEPT !.user = u,
                                     !.handler = "disconnect_device",
                                     !.hwid = hwid ]
            called == [ base EXCEPT !.disconnect_called = TRUE ]
        IN  /\ IF ~subs[u].active
               THEN /\ dev_call' =
                         [ base EXCEPT !.alert = "subscription_not_active" ]
                    /\ UNCHANGED panel_devices
               ELSE IF ~ok
               THEN /\ dev_call' = [ called EXCEPT !.alert = "error_try_again" ]
                    /\ UNCHANGED panel_devices
               ELSE /\ dev_call' = AfterDisconnect(called, edit_ok)
                    /\ panel_devices' =
                         [ panel_devices EXCEPT
                             ![u] = Disconnected(@, hwid) ]
            /\ UNCHANGED DevFrame

\* ------------------------------------- two updates of one user at a time

\* The dispatcher runs the handler of every update as a task of its own,
\* with a session of its own: two updates of one user interleave at the
\* awaits of their handlers.  The user of the two updates:
RaceUser == 1

StartTaskIdle ==
    [ pc |-> "idle", target |-> NoId, seen |-> NoId, payload |-> NoId ]

\* Lines 235-264 of /start in task t: the referral target of the arguments
\* and db_user as get_user_by_id returns it to this session.
start_lookup(t) ==
    /\ start_task[t].pc = "idle"
    /\ users[RaceUser].exists
    /\ \E args \in StartArgs :
         start_task' =
             [ start_task EXCEPT
                 ![t] = [ pc |-> "looked_up",
                          target |-> ResolveReferral(args, RaceUser,
                                                     settings.LEGACY_REFS,
                                                     users).referred_by_user_id,
                          seen |-> users[RaceUser].referred_by_id,
                          payload |-> NoId ] ]
    /\ UNCHANGED <<users, StartRaceFrame>>

\* Lines 299-306 in task t: the referral of update_payload, decided on the
\* db_user this task read.
ReferralPayload(target, seen, is_active) ==
    IF target # NoId /\ seen = NoId /\ ~is_active THEN target ELSE NoId

start_check(t) ==
    /\ start_task[t].pc = "looked_up"
    /\ \E call_ok \in BOOLEAN :
         /\ call_ok \/ (start_task[t].target # NoId /\ start_task[t].seen = NoId)
         /\ start_task' =
              [ start_task EXCEPT
                  ![t].pc = "checked",
                  ![t].payload =
                      ReferralPayload(start_task[t].target, start_task[t].seen,
                                      IsActiveOrDefault(call_ok,
                                                        subs[RaceUser].active)) ]
    /\ UNCHANGED <<users, StartRaceFrame>>

\* Lines 315-316 in task t, with the commit that ends the handler:
\* user_dal.update_user writes the fields of update_payload.
start_update(t) ==
    /\ start_task[t].pc = "checked"
    /\ users' = IF start_task[t].payload # NoId
                THEN [ users EXCEPT
                         ![RaceUser].referred_by_id = start_task[t].payload ]
                ELSE users
    /\ start_task' = [ start_task EXCEPT ![t] = StartTaskIdle ]
    /\ UNCHANGED StartRaceFrame

TrialTaskIdle ==
    [ pc |-> "idle", entry |-> "", alert |-> "", screen |-> "", via |-> "",
      granted |-> FALSE ]

\* Lines 40-64 of _activate_trial in task t: the checks before the
\* activation, and the main menu when one refuses.
trial_check(t) ==
    /\ trial_task[t].pc = "idle"
    /\ \E entry \in TrialEntries, ui_ok \in BOOLEAN :
       \E pre \in { TrialPrecheck(TRUE, TRUE, settings.TRIAL_ENABLED,
                                 subs[RaceUser].had) } :
         trial_task' =
             [ trial_task EXCEPT
                 ![t] = IF pre = "eligible"
                        THEN [ TrialTaskIdle EXCEPT !.pc = "eligible",
                                                    !.entry = entry ]
                        ELSE [ TrialTaskIdle EXCEPT
                                 !.pc = "done",
                                 !.entry = entry,
                                 !.alert =
                                     IF pre = "disabled"
                                     THEN "trial_feature_disabled"
                                     ELSE "trial_already_had_subscription_or_trial",
                                 !.screen = "main_menu",
                                 !.via = IF ui_ok THEN "edit_text"
                                         ELSE "answer" ] ]
    /\ UNCHANGED <<subs, TrialRaceFrame>>

\* SubscriptionService.activate_trial_subscription is idempotent per user:
\* it activates no trial for a user who has had a subscription.
TrialServiceResults_NotIdempotent(s, u) == ActivationResults

TrialServiceResults(s, u) ==
    IF s[u].had THEN { r \in ActivationResults : r.kind # "activated" }
    ELSE ActivationResults

\* Lines 67-152 in task t: the activation, the alert and the screen.
trial_activate(t) ==
    /\ trial_task[t].pc = "eligible"
    /\ \E result \in TrialServiceResults(subs, RaceUser), ui_ok \in BOOLEAN :
         /\ subs' = ActivateTrialSubscription(subs, RaceUser, result)
         /\ trial_task' =
              [ trial_task EXCEPT
                  ![t] = [ pc |-> "done",
                           entry |-> trial_task[t].entry,
                           alert |-> IF result.kind = "activated"
                                     THEN "trial_activated_alert"
                                     ELSE IF result.kind = "failed"
                                             /\ result.message_key # ""
                                     THEN result.message_key
                                     ELSE "trial_activation_failed",
                           screen |-> IF result.kind = "activated"
                                      THEN "trial_activated_details_message"
                                      ELSE "trial_failure_with_main_menu",
                           via |-> IF ui_ok THEN "edit_text"
                                   ELSE "send_clean",
                           granted |-> result.kind = "activated" ] ]
    /\ UNCHANGED TrialRaceFrame
\* ------------------------------------------------ main-menu navigation

\* The main_action buttons that open a screen (start.py 501-531):
\* apply_promo is prompt_promo_code_input and request_trial the trial
\* confirmation.
NavActions ==
    { "subscribe", "my_subscription", "my_devices", "referral", "language",
      "back_to_main", "back_to_main_keep" }

NavIdle == [ user |-> NoId, action |-> "", handler |-> "", state_before |-> "" ]

\* The handler a main_action callback reaches: the filter of
\* cancel_promo_input_via_button passes only for back_to_main in the state
\* waiting_for_promo_code, and the promo router is asked before the
\* catch-all of start.py.
NavRoute(action, state) ==
    IF action = "back_to_main" /\ state = "waiting_for_promo_code"
    THEN "cancel_promo_input_via_button"
    ELSE "main_action_callback_handler"

\* The FSM state when the handler returns: state.clear() is line 269 of
\* promo_user.py; main_action_callback_handler passes the state on to
\* prompt_promo_code_input only and never clears it.
StateAfterNav(state, handler, i18n_ok) ==
    IF handler = "cancel_promo_input_via_button" /\ i18n_ok
    THEN "none"
    ELSE state

\* A navigation button of the main menu pressed by u.
main_action_callback_handler(u) ==
    \E action \in NavActions :
    \E handler \in { NavRoute(action, fsm_state[u]) } :
    \E i18n_ok \in
         (IF handler = "cancel_promo_input_via_button" THEN BOOLEAN
          ELSE { TRUE }) :
        /\ fsm_state' =
              [ fsm_state EXCEPT
                  ![u] = StateAfterNav(fsm_state[u], handler, i18n_ok) ]
        /\ nav_call' = [ user |-> u, action |-> action, handler |-> handler,
                         state_before |-> fsm_state[u] ]
        /\ UNCHANGED NavFrame

\* ------------------------------------------------ the screens of /start

WelcomeIdle ==
    [ user |-> NoId, welcome |-> NoMessage, screen |-> NoMessage,
      deleted |-> {} ]

\* What delete_previous can do with the tracked message.
PreviousOutcomes(tracked, messages) ==
    IF tracked = NoMessage THEN { "" }
    ELSE DeleteOutcomes(tracked \in messages)

\* send_clean run to its end with nothing in between: the tracked message
\* is deleted if there is one and Telegram agrees, the new message gets the
\* next id and becomes the tracked one.  c: the chat, as the record of
\* last_messages, chat_messages, next_message_id and undeleted.
SendClean(c, outcome) ==
    LET kept == IF outcome = "deleted" THEN c.messages \ { c.tracked }
                ELSE c.messages
    IN  [ tracked |-> TrackedAfterSend(c.tracked, c.next),
          messages |-> ChatAfterSend(kept, c.next),
          next |-> c.next + 1,
          undeleted |->
              IF outcome = "failed" /\ c.tracked \in c.messages
              THEN c.undeleted \cup { c.tracked } ELSE c.undeleted,
          sent |-> c.next ]

\* send_clean when `called`, the chat as it was otherwise.
SendCleanIf(called, c, outcome) ==
    IF called THEN SendClean(c, outcome) ELSE [ c EXCEPT !.sent = NoMessage ]

\* start_command_handler with the messages it puts into the chat: the
\* welcome (lines 333-338) and then the promo success screen (363-369) or
\* the main menu (376-378, send_main_menu with is_edit=False), each by
\* send_clean.
start_command_handler_screens(u) ==
    /\ next_message_id + 1 <= MaxMessage
    /\ \E args \in PromoStartArgs, profile \in Profiles, call_ok \in BOOLEAN :
          StartCommand(u, args, profile, call_ok)
    /\ LET c0 == [ tracked |-> last_messages, messages |-> chat_messages,
                   next |-> next_message_id, undeleted |-> undeleted,
                   sent |-> NoMessage ]
       IN  \E o1 \in PreviousOutcomes(c0.tracked, c0.messages) :
           \E c1 \in { SendCleanIf(gate_call'.welcome, c0, o1) } :
           \E o2 \in PreviousOutcomes(c1.tracked, c1.messages) :
           \E c2 \in { SendCleanIf(gate_call'.screen # "", c1, o2) } :
               /\ last_messages' = c2.tracked
               /\ chat_messages' = c2.messages
               /\ next_message_id' = c2.next
               /\ undeleted' = c2.undeleted
               /\ welcome_call' =
                     [ user |-> u, welcome |-> c1.sent, screen |-> c2.sent,
                       deleted |-> (c0.messages \cup c1.messages)
                                      \ c2.messages ]
    /\ UNCHANGED StartScreensFrame

\* ------------------------------------- payment methods: delete and routes

\* The callback filters of the payment-method router, in the order the
\* decorators register them (lines 57, 122, 183, 225, 326, 478, 627).  An
\* update goes to the first handler whose filter passes.
PmRoutes_DeleteFirst ==
    << [ handler |-> "pm:manage", exact |-> TRUE, text |-> << "p", "m", ":", "m", "a", "n", "a", "g", "e" >> ],
       [ handler |-> "pm:bind", exact |-> TRUE, text |-> << "p", "m", ":", "b", "i", "n", "d" >> ],
       [ handler |-> "pm:delete", exact |-> FALSE, text |-> << "p", "m", ":", "d", "e", "l", "e", "t", "e" >> ],
       [ handler |-> "pm:delete_confirm", exact |-> FALSE, text |-> << "p", "m", ":", "d", "e", "l", "e", "t", "e", "_", "c", "o", "n", "f", "i", "r", "m" >> ],
       [ handler |-> "pm:view", exact |-> FALSE, text |-> << "p", "m", ":", "v", "i", "e", "w" >> ],
       [ handler |-> "pm:history", exact |-> FALSE, text |-> << "p", "m", ":", "h", "i", "s", "t", "o", "r", "y" >> ],
       [ handler |-> "pm:list", exact |-> FALSE, text |-> << "p", "m", ":", "l", "i", "s", "t", ":" >> ] >>

PmRoutes ==
    << [ handler |-> "pm:manage", exact |-> TRUE, text |-> << "p", "m", ":", "m", "a", "n", "a", "g", "e" >> ],
       [ handler |-> "pm:bind", exact |-> TRUE, text |-> << "p", "m", ":", "b", "i", "n", "d" >> ],
       [ handler |-> "pm:delete_confirm", exact |-> FALSE, text |-> << "p", "m", ":", "d", "e", "l", "e", "t", "e", "_", "c", "o", "n", "f", "i", "r", "m" >> ],
       [ handler |-> "pm:delete", exact |-> FALSE, text |-> << "p", "m", ":", "d", "e", "l", "e", "t", "e" >> ],
       [ handler |-> "pm:view", exact |-> FALSE, text |-> << "p", "m", ":", "v", "i", "e", "w" >> ],
       [ handler |-> "pm:history", exact |-> FALSE, text |-> << "p", "m", ":", "h", "i", "s", "t", "o", "r", "y" >> ],
       [ handler |-> "pm:list", exact |-> FALSE, text |-> << "p", "m", ":", "l", "i", "s", "t", ":" >> ] >>

\* F.data == text, F.data.startswith(text).
RoutePasses(route, data) ==
    IF route.exact THEN data = route.text ELSE StartsWith(data, route.text)

\* The handler the router runs for this callback data; "" when no filter
\* passes.
RouteOf(data) ==
    LET hits == SelectSeq(PmRoutes, LAMBDA r : RoutePasses(r, data))
    IN  IF Len(hits) = 0 THEN "" ELSE hits[1].handler

\* The method ids the keyboards put behind pm:delete_confirm: and
\* pm:delete: -- the method_id of a row, one of a row that is gone, and the
\* provider-side id of the legacy record.
DeleteIds ==
    { IdDigits(k) : k \in 1..(MaxMethods + 1) }
        \cup { ProviderIdOf(1), << "o", "l", "d" >> }

DeleteConfirmData ==
    { << "p", "m", ":", "d", "e", "l", "e", "t", "e", "_", "c", "o", "n", "f", "i", "r", "m", ":" >> \o i : i \in DeleteIds }

DeleteData ==
    { << "p", "m", ":", "d", "e", "l", "e", "t", "e", ":" >> \o i : i \in DeleteIds }

RouteTable == [ d \in DeleteConfirmData \cup DeleteData |-> RouteOf(d) ]

\* parts = data.split(":", 2); parts[2] if len(parts) >= 3 else "".
PmIdOf(data) ==
    LET parts == SplitMax(data, ":", 2)
    IN  IF Len(parts) >= 3 THEN parts[3] ELSE << >>

PmIdTable == [ d \in DeleteConfirmData \cup DeleteData |-> PmIdOf(d) ]

\* payment_method_delete_confirm: the confirmation screen with the id.
DeleteConfirm(u, data, edit_ok) ==
    /\ pm_call' =
          IF ~AutopaymentsGate(settings)
          THEN [ PmIdle EXCEPT
                   !.user = u, !.handler = "pm:delete_confirm",
                   !.data = data, !.alert = "error_service_unavailable" ]
          ELSE [ PmIdle EXCEPT
                   !.user = u, !.handler = "pm:delete_confirm",
                   !.data = data,
                   !.screen = "payment_method_delete_confirm",
                   !.keyboard_id = PmIdTable[data],
                   !.via = ShownVia(edit_ok) ]
    /\ UNCHANGED <<pm_methods, billing, cards>>
    /\ UNCHANGED DeleteFrame

\* user_billing_dal.delete_user_payment_method and
\* delete_user_payment_method_by_provider_id: the table without the row of
\* this user that the id names.
RowNamed(r, user_id, pm_id_raw) ==
    /\ r.user_id = user_id
    /\ IF IsDigitStr(pm_id_raw) THEN r.method_id = IntOf(pm_id_raw)
       ELSE r.provider_payment_method_id = pm_id_raw

DeleteUserPaymentMethod(table, user_id, pm_id_raw) ==
    SelectSeq(table, LAMBDA r : ~RowNamed(r, user_id, pm_id_raw))

\* user_billing_dal.delete_yk_payment_method: the legacy record without its
\* saved method.
HasLegacyMethod(b) == b.exists /\ Truthy(b.yookassa_payment_method_id)

DeleteYkPaymentMethod(b) ==
    IF HasLegacyMethod(b)
    THEN [ b EXCEPT !.yookassa_payment_method_id = NoStr,
                    !.card = NoBilling.card ]
    ELSE b

\* user_billing_dal.user_has_saved_payment_method.
UserHasSavedPaymentMethod(table, bill, user_id) ==
    \/ Len(ListUserPaymentMethods(table, user_id)) > 0
    \/ HasLegacyMethod(bill[user_id])

\* Lines 251-267: what a pm:delete removes.  The legacy record is cleared
\* whatever the id names; legacy_ok: delete_yk_payment_method does not
\* raise.
DeleteEffect(table, b, user_id, pm_id_raw, legacy_ok) ==
    LET rows == IF pm_id_raw # << >>
                THEN DeleteUserPaymentMethod(table, user_id, pm_id_raw)
                ELSE table
        legacy == IF legacy_ok THEN DeleteYkPaymentMethod(b) ELSE b
    IN  [ rows |-> rows, legacy |-> legacy,
          deleted |-> (rows # table \/ legacy # b) ]

\* payment_method_delete.  db_ok: the row deletion, the commit and the
\* listing do not raise; when one does, lines 316-322 roll back and alert.
Delete(u, data, db_ok, legacy_ok, edit_ok) ==
    \E e \in { DeleteEffect(pm_methods, billing[u], u, PmIdTable[data],
                            legacy_ok) } :
        LET base == [ PmIdle EXCEPT !.user = u, !.handler = "pm:delete",
                                    !.data = data ]
            done == AutopaymentsGate(settings) /\ db_ok
            cards_ == CardsOf(ListUserPaymentMethods(e.rows, u))
        IN  /\ pm_call' =
                  IF ~AutopaymentsGate(settings)
                  THEN [ base EXCEPT !.alert = "error_service_unavailable" ]
                  ELSE IF ~db_ok
                  THEN [ base EXCEPT !.alert = "error_try_again" ]
                  ELSE [ base EXCEPT
                           !.listed = TRUE,
                           !.committed = TRUE,
                           !.screen = "payment_methods_title",
                           !.cards = cards_,
                           !.none_notice = (Len(cards_) = 0),
                           !.banner = IF e.deleted
                                      THEN "payment_method_deleted_success"
                                      ELSE "error_try_again",
                           !.via = ShownVia(edit_ok) ]
            /\ pm_methods' = IF done THEN e.rows ELSE pm_methods
            /\ billing' = IF done THEN [ billing EXCEPT ![u] = e.legacy ]
                          ELSE billing
            /\ cards' = [ cards EXCEPT
                            ![u] = UserHasSavedPaymentMethod(pm_methods',
                                                             billing', u) ]
            /\ UNCHANGED DeleteFrame

\* A callback whose data the router gives to payment_method_delete_confirm.
payment_method_delete_confirm(u) ==
    \E data \in DeleteConfirmData \cup DeleteData, edit_ok \in BOOLEAN :
        /\ RouteTable[data] = "pm:delete_confirm"
        /\ DeleteConfirm(u, data, edit_ok)

\* A callback whose data the router gives to payment_method_delete.
payment_method_delete(u) ==
    \E data \in DeleteConfirmData \cup DeleteData,
       db_ok \in BOOLEAN, legacy_ok \in BOOLEAN, edit_ok \in BOOLEAN :
        /\ RouteTable[data] = "pm:delete"
        /\ Delete(u, data, db_ok, legacy_ok, edit_ok)
\* -------------------------------------------------------- specifications

\* The auto-renew state while no auto-renew callback is modelled.
IdleRenew ==
    /\ subscriptions = [ s \in SubIds |-> NoSub ]
    /\ cards = [ u \in UserIds |-> FALSE ]
    /\ renew_call = RenewIdle

\* The channel-gate state while no channel is required.
IdleGate ==
    /\ channel = [ u \in UserIds |-> NoCache ]
    /\ clock = 1
    /\ gate_call = GateIdle

\* The message cleaner before any send_clean.
IdleClean ==
    /\ last_messages = NoMessage
    /\ chat_messages = {}
    /\ next_message_id = 1
    /\ task = [ p \in Tasks |->
                  [ pc |-> "idle", msg_id |-> NoMessage, delete |-> "",
                    sent |-> NoMessage ] ]
    /\ undeleted = {}
    /\ clean_call = [ task |-> 0, msg_id |-> NoMessage, delete |-> "",
                      sent |-> NoMessage, outcome |-> "" ]

\* No call of add_months.
IdleDate ==
    date_call = [ base_dt |-> NoDatetime, months_to_add |-> 0,
                  result |-> NoDatetime, done |-> TRUE ]

\* No call of pluralize_months.
IdlePlural == plural_call = [ n |-> 0, result |-> "", done |-> TRUE ]

\* No call of _format_pm_title.
IdleTitle ==
    title_call = [ network |-> NoStr, last4 |-> NoStr,
                   result |-> GetText("", NoStr, NoStr), done |-> TRUE ]

\* The payment-method tables while no payment-method callback is modelled.
IdlePm ==
    /\ pm_methods = << >>
    /\ billing = [ u \in UserIds |-> NoBilling ]
    /\ pm_call = PmIdle

\* No ad attribution.
IdleAd == attribution = [ u \in UserIds |-> "none" ]

\* No device callback yet; the panel knows no device.
IdleDev ==
    /\ panel_devices = [ u \in UserIds |-> NoData ]
    /\ dev_call = DevIdle

\* No concurrent update is being handled.
IdleRace ==
    /\ start_task = [ t \in Tasks |-> StartTaskIdle ]
    /\ trial_task = [ t \in Tasks |-> TrialTaskIdle ]

\* No navigation callback and no /start with its screens yet.
IdleNav ==
    /\ nav_call = NavIdle
    /\ welcome_call = WelcomeIdle

IdleLate == IdleDev /\ IdleRace /\ IdleNav

IdleUtil == IdlePlural /\ IdleTitle /\ IdlePm /\ IdleAd /\ IdleLate

\* The tables and the logs of the handlers, while no handler is modelled.
IdleHandlers ==
    /\ users = [ u \in UserIds |-> PlainUser ]
    /\ subs = [ u \in UserIds |-> [ had |-> FALSE, active |-> FALSE ] ]
    /\ fsm_state = [ u \in UserIds |-> "none" ]
    /\ trial_call = TrialIdle
    /\ start_call = StartIdle
    /\ ref_call = RefIdle
    /\ promo_call = PromoIdle
    /\ IdleRenew
    /\ IdleGate
    /\ IdleClean
    /\ IdleDate
    /\ IdleAd
    /\ IdleLate

\* Everything but the helper calls, while no handler is modelled.
IdleCore == settings = SettingsDefault /\ IdleHandlers

\* Trial activation.
InitTrial ==
    /\ settings \in { [ SettingsDefault EXCEPT !.TRIAL_ENABLED = b ] :
                        b \in BOOLEAN }
    /\ users = [ u \in UserIds |-> PlainUser ]
    /\ subs \in { f \in [ UserIds -> SubStates ] :
                    \A u \in UserIds \ Callers : ~f[u].had }
    /\ fsm_state = [ u \in UserIds |-> "none" ]
    /\ trial_call = TrialIdle
    /\ start_call = StartIdle
    /\ ref_call = RefIdle
    /\ promo_call = PromoIdle
    /\ IdleRenew
    /\ IdleGate
    /\ IdleClean
    /\ IdleDate
    /\ IdlePlural /\ IdleTitle /\ IdlePm /\ IdleLate
    /\ attribution \in { f \in [ UserIds -> { "none", "recorded" } ] :
                           \A u \in UserIds \ Callers : f[u] = "none" }

NextTrial ==
    \E u \in Callers :
        \/ request_trial_confirmation_handler(u)
        \/ confirm_activate_trial_handler(u)
        \/ cancel_trial_activation(u)
        \/ SubscriptionExpires(u)

SpecTrial == InitTrial /\ [][NextTrial]_vars

\* Rows the User table can hold at start-up: the referrer of a caller is
\* another user, who is registered.
UserRows(u) ==
    { NoUser, PlainUser }
        \cup { [ PlainUser EXCEPT !.referred_by_id = r ] :
                 r \in IF u \in Callers THEN UserIds \ { u } ELSE {} }

UserTables ==
    { f \in [ UserIds -> UNION { UserRows(u) : u \in UserIds } ] :
        \A u \in UserIds :
            /\ f[u] \in UserRows(u)
            /\ f[u].referred_by_id # NoId => f[f[u].referred_by_id].exists }

\* /start.
InitStart ==
    /\ settings \in { [ SettingsDefault EXCEPT !.LEGACY_REFS = b ] :
                        b \in BOOLEAN }
    /\ users \in UserTables
    /\ subs \in { f \in [ UserIds -> SubStates ] :
                    \A u \in UserIds :
                        /\ f[u].had => users[u].exists
                        /\ u \notin Callers => ~f[u].had }
    /\ fsm_state = [ u \in UserIds |-> "none" ]
    /\ trial_call = TrialIdle
    /\ start_call = StartIdle
    /\ ref_call = RefIdle
    /\ promo_call = PromoIdle
    /\ IdleRenew
    /\ IdleGate
    /\ IdleClean
    /\ IdleDate
    /\ IdleUtil

NextStart ==
    \E u \in Callers :
        \/ start_command_handler(u)
        \/ SubscriptionExpires(u)

SpecStart == InitStart /\ [][NextStart]_vars

\* The referral payload of /start, over every table of registered users.
InitRef ==
    /\ settings \in { [ SettingsDefault EXCEPT !.LEGACY_REFS = b ] :
                        b \in BOOLEAN }
    /\ users \in UserTables
    /\ subs = [ u \in UserIds |-> [ had |-> FALSE, active |-> FALSE ] ]
    /\ fsm_state = [ u \in UserIds |-> "none" ]
    /\ trial_call = TrialIdle
    /\ start_call = StartIdle
    /\ ref_call = RefIdle
    /\ promo_call = PromoIdle
    /\ IdleRenew
    /\ IdleGate
    /\ IdleClean
    /\ IdleDate
    /\ IdleUtil

NextRef == \E u \in Callers : resolve_referral(u)

SpecRef == InitRef /\ [][NextRef]_vars


\* Promo-code input.
InitPromo ==
    /\ settings \in { [ SettingsDefault EXCEPT !.LOG_SUSPICIOUS_ACTIVITY = b ] :
                        b \in BOOLEAN }
    /\ users = [ u \in UserIds |-> PlainUser ]
    /\ subs = [ u \in UserIds |-> [ had |-> FALSE, active |-> FALSE ] ]
    /\ fsm_state = [ u \in UserIds |-> "none" ]
    /\ trial_call = TrialIdle
    /\ start_call = StartIdle
    /\ ref_call = RefIdle
    /\ promo_call = PromoIdle
    /\ IdleRenew
    /\ IdleGate
    /\ IdleClean
    /\ IdleDate
    /\ IdleUtil

NextPromo ==
    \E u \in Callers :
        \/ prompt_promo_code_input(u)
        \/ process_promo_code_input(u)
        \/ cancel_promo_input_via_button(u)

SpecPromo == InitPromo /\ [][NextPromo]_vars


\* Auto-renew callbacks.
InitRenew ==
    /\ settings = SettingsDefault
    /\ users = [ u \in UserIds |-> PlainUser ]
    /\ subs = [ u \in UserIds |-> [ had |-> FALSE, active |-> FALSE ] ]
    /\ fsm_state = [ u \in UserIds |-> "none" ]
    /\ trial_call = TrialIdle
    /\ start_call = StartIdle
    /\ ref_call = RefIdle
    /\ promo_call = PromoIdle
    /\ subscriptions \in SubTables
    /\ cards \in { f \in [ UserIds -> BOOLEAN ] :
                     \A u \in UserIds \ Callers : ~f[u] }
    /\ renew_call = RenewIdle
    /\ IdleGate
    /\ IdleClean
    /\ IdleDate
    /\ IdleUtil

NextRenew ==
    \E u \in Callers :
        \/ toggle_autorenew_handler(u)
        \/ confirm_autorenew_handler(u)
        \/ autorenew_cancel_from_webhook_button(u)

SpecRenew == InitRenew /\ [][NextRenew]_vars



\* The gate reads and writes the row of the user who sent the event and
\* no other row: the events of one user are modelled.
GateCaller == 1

\* The channel gate, in /start and in channel_subscription:verify.
InitGate ==
    /\ settings \in { [ SettingsDefault EXCEPT
                          !.REQUIRED_CHANNEL_ID = r,
                          !.ADMIN_IDS = a,
                          !.DISABLE_WELCOME_MESSAGE = d ] :
                        r \in { NoChannel } \cup ChannelIds,
                        a \in SUBSET { GateCaller },
                        d \in BOOLEAN }
    /\ users \in { f \in [ UserIds -> { NoUser, PlainUser } ] :
                     \A u \in UserIds \ { GateCaller } : f[u] = PlainUser }
    /\ subs = [ u \in UserIds |-> [ had |-> FALSE, active |-> FALSE ] ]
    /\ fsm_state = [ u \in UserIds |-> "none" ]
    /\ trial_call = TrialIdle
    /\ start_call = StartIdle
    /\ ref_call = RefIdle
    /\ promo_call = PromoIdle
    /\ IdleRenew
    /\ channel \in { f \in [ UserIds ->
                              { NoCache }
                                \cup { [ verified |-> v, verified_for |-> c,
                                         checked_at |-> 1 ] :
                                         v \in BOOLEAN, c \in ChannelIds } ] :
                       \A u \in UserIds :
                           u # GateCaller \/ ~users[u].exists
                               => f[u] = NoCache }
    /\ clock = 1
    /\ gate_call = GateIdle
    /\ IdleClean
    /\ IdleDate
    /\ IdleUtil

NextGate ==
    \/ start_command_handler_promo(GateCaller)
    \/ verify_channel_subscription_callback(GateCaller)
    \/ Tick

SpecGate == InitGate /\ [][NextGate]_vars


\* /start with an ad token.
InitAd ==
    /\ settings \in { [ SettingsDefault EXCEPT !.REQUIRED_CHANNEL_ID = r ] :
                        r \in { NoChannel } \cup ChannelIds }
    /\ users \in { f \in [ UserIds -> { NoUser, PlainUser } ] :
                     \A u \in UserIds \ Callers : f[u] = PlainUser }
    /\ subs = [ u \in UserIds |-> [ had |-> FALSE, active |-> FALSE ] ]
    /\ fsm_state = [ u \in UserIds |-> "none" ]
    /\ trial_call = TrialIdle
    /\ start_call = StartIdle
    /\ ref_call = RefIdle
    /\ promo_call = PromoIdle
    /\ IdleRenew
    /\ IdleGate
    /\ IdleClean
    /\ IdleDate
    /\ IdlePlural /\ IdleTitle /\ IdlePm /\ IdleLate
    /\ attribution \in { f \in [ UserIds -> { "none", "recorded" } ] :
                           \A u \in UserIds :
                               u \notin Callers \/ ~users[u].exists
                                   => f[u] = "none" }

NextAd == \E u \in Callers : start_command_handler_ad(u)

SpecAd == InitAd /\ [][NextAd]_vars


\* The device screens.
InitDev ==
    /\ settings \in { [ SettingsDefault EXCEPT
                          !.MY_DEVICES_SECTION_ENABLED = b ] : b \in BOOLEAN }
    /\ users = [ u \in UserIds |-> PlainUser ]
    /\ subs \in { f \in [ UserIds -> SubStates ] :
                    \A u \in UserIds \ Callers : ~f[u].had }
    /\ fsm_state = [ u \in UserIds |-> "none" ]
    /\ trial_call = TrialIdle
    /\ start_call = StartIdle
    /\ ref_call = RefIdle
    /\ promo_call = PromoIdle
    /\ IdleRenew
    /\ IdleGate
    /\ IdleClean
    /\ IdleDate
    /\ IdlePlural /\ IdleTitle /\ IdlePm /\ IdleAd /\ IdleRace /\ IdleNav
    /\ panel_devices \in { f \in [ UserIds -> PanelAnswers ] :
                             \A u \in UserIds \ Callers : f[u] = NoData }
    /\ dev_call = DevIdle

NextDev ==
    \E u \in Callers :
        \/ my_devices_command_handler(u)
        \/ disconnect_device_handler(u)

SpecDev == InitDev /\ [][NextDev]_vars


\* The tables of the saved methods the deletion is run on: Visa cards, none
\* the default.
DeleteTables ==
    { t \in PmTables :
        \A k \in DOMAIN t : t[k].card.card_last4 # NoStr /\ ~t[k].is_default }

\* pm:delete_confirm and pm:delete, over the tables and the legacy records
\* of the first user.
InitDelete ==
    /\ settings \in { [ SettingsDefault EXCEPT
                          !.YOOKASSA_AUTOPAYMENTS_ENABLED = b ] :
                        b \in BOOLEAN }
    /\ users = [ u \in UserIds |-> PlainUser ]
    /\ subs = [ u \in UserIds |-> [ had |-> FALSE, active |-> FALSE ] ]
    /\ fsm_state = [ u \in UserIds |-> "none" ]
    /\ trial_call = TrialIdle
    /\ start_call = StartIdle
    /\ ref_call = RefIdle
    /\ promo_call = PromoIdle
    /\ IdleGate
    /\ IdleClean
    /\ IdleDate
    /\ IdlePlural /\ IdleTitle /\ IdleAd /\ IdleLate
    /\ pm_methods \in DeleteTables
    /\ billing \in { f \in [ UserIds -> Billings ] :
                       \A u \in UserIds \ { 1 } : f[u] = NoBilling }
    /\ pm_call = PmIdle
    /\ cards = [ u \in UserIds |->
                   UserHasSavedPaymentMethod(pm_methods, billing, u) ]
    /\ subscriptions = [ s \in SubIds |-> NoSub ]
    /\ renew_call = RenewIdle

NextDelete ==
    \E u \in Callers :
        \/ payment_method_delete_confirm(u)
        \/ payment_method_delete(u)

SpecDelete == InitDelete /\ [][NextDelete]_vars

\* Deleting payment methods next to the auto-renew confirmation: the first
\* caller has one saved method, a row or the legacy record, and
\* auto-renew is enabled only where the owner has a saved method.
InitRenewDelete ==
    /\ settings = SettingsDefault
    /\ users = [ u \in UserIds |-> PlainUser ]
    /\ subs = [ u \in UserIds |-> [ had |-> FALSE, active |-> FALSE ] ]
    /\ fsm_state = [ u \in UserIds |-> "none" ]
    /\ trial_call = TrialIdle
    /\ start_call = StartIdle
    /\ ref_call = RefIdle
    /\ promo_call = PromoIdle
    /\ IdleGate
    /\ IdleClean
    /\ IdleDate
    /\ IdlePlural /\ IdleTitle /\ IdleAd /\ IdleLate
    /\ pm_methods \in { t \in DeleteTables :
                          Len(t) <= 1 /\ \A k \in DOMAIN t : t[k].user_id = 1 }
    /\ billing \in { f \in [ UserIds -> Billings ] :
                       /\ \A u \in UserIds \ { 1 } : f[u] = NoBilling
                       /\ HasLegacyMethod(f[1]) = (Len(pm_methods) = 0) }
    /\ pm_call = PmIdle
    /\ cards = [ u \in UserIds |->
                   UserHasSavedPaymentMethod(pm_methods, billing, u) ]
    /\ subscriptions \in
          { f \in [ SubIds -> { NoSub } \cup
                                { SubRow(u, "yookassa", a, TRUE) :
                                    u \in UserIds, a \in BOOLEAN } ] :
              \A s \in SubIds :
                  /\ f[s].exists = (s = 1)
                  /\ f[s].exists =>
                      /\ f[s].user_id = OwnerOf(s)
                      /\ f[s].auto_renew_enabled => cards[f[s].user_id] }
    /\ renew_call = RenewIdle

NextRenewDelete ==
    \E u \in Callers :
        \/ confirm_autorenew_handler(u)
        \/ payment_method_delete(u)

SpecRenewDelete == InitRenewDelete /\ [][NextRenewDelete]_vars


\* Two /start of one registered user, interleaved.
InitStartRace ==
    /\ settings \in { [ SettingsDefault EXCEPT !.LEGACY_REFS = b ] :
                        b \in BOOLEAN }
    /\ users \in { f \in [ UserIds -> { NoUser, PlainUser } ] :
                     f[RaceUser] = PlainUser }
    /\ subs \in { f \in [ UserIds -> SubStates ] :
                    \A u \in UserIds \ { RaceUser } : ~f[u].had }
    /\ fsm_state = [ u \in UserIds |-> "none" ]
    /\ trial_call = TrialIdle
    /\ start_call = StartIdle
    /\ ref_call = RefIdle
    /\ promo_call = PromoIdle
    /\ IdleRenew
    /\ IdleGate
    /\ IdleClean
    /\ IdleDate
    /\ IdleUtil

NextStartRace ==
    \E t \in Tasks :
        \/ start_lookup(t)
        \/ start_check(t)
        \/ start_update(t)

SpecStartRace == InitStartRace /\ [][NextStartRace]_vars

\* The main menu and the promo prompt: navigation while a code is awaited.
InitNav ==
    /\ InitPromo
    /\ settings.LOG_SUSPICIOUS_ACTIVITY

NextNav ==
    \E u \in Callers :
        \/ prompt_promo_code_input(u)
        \/ process_promo_code_input(u)
        \/ main_action_callback_handler(u)

SpecNav == InitNav /\ [][NextNav]_vars

\* /start, again and again, with the messages of the chat.
InitWelcome ==
    /\ settings \in { [ SettingsDefault EXCEPT
                          !.REQUIRED_CHANNEL_ID = r,
                          !.DISABLE_WELCOME_MESSAGE = d ] :
                        r \in { NoChannel } \cup ChannelIds,
                        d \in BOOLEAN }
    /\ users \in { f \in [ UserIds -> { NoUser, PlainUser } ] :
                     \A u \in UserIds \ { GateCaller } : f[u] = PlainUser }
    /\ subs = [ u \in UserIds |-> [ had |-> FALSE, active |-> FALSE ] ]
    /\ fsm_state = [ u \in UserIds |-> "none" ]
    /\ trial_call = TrialIdle
    /\ start_call = StartIdle
    /\ ref_call = RefIdle
    /\ promo_call = PromoIdle
    /\ IdleRenew
    /\ channel = [ u \in UserIds |-> NoCache ]
    /\ clock = 1
    /\ gate_call = GateIdle
    /\ IdleClean
    /\ IdleDate
    /\ IdleUtil

NextWelcome == start_command_handler_screens(GateCaller)

SpecWelcome == InitWelcome /\ [][NextWelcome]_vars

\* Two trial callbacks of one user, interleaved.
InitTrialRace ==
    /\ settings \in { [ SettingsDefault EXCEPT !.TRIAL_ENABLED = b ] :
                        b \in BOOLEAN }
    /\ users = [ u \in UserIds |-> PlainUser ]
    /\ subs \in { f \in [ UserIds -> SubStates ] :
                    \A u \in UserIds \ { RaceUser } : ~f[u].had }
    /\ fsm_state = [ u \in UserIds |-> "none" ]
    /\ trial_call = TrialIdle
    /\ start_call = StartIdle
    /\ ref_call = RefIdle
    /\ promo_call = PromoIdle
    /\ IdleRenew
    /\ IdleGate
    /\ IdleClean
    /\ IdleDate
    /\ IdleUtil

NextTrialRace ==
    \E t \in Tasks :
        \/ trial_check(t)
        \/ trial_activate(t)

SpecTrialRace == InitTrialRace /\ [][NextTrialRace]_vars


\* send_clean, one call after the other.
InitClean ==
    /\ settings = SettingsDefault
    /\ users = [ u \in UserIds |-> PlainUser ]
    /\ subs = [ u \in UserIds |-> [ had |-> FALSE, active |-> FALSE ] ]
    /\ fsm_state = [ u \in UserIds |-> "none" ]
    /\ trial_call = TrialIdle
    /\ start_call = StartIdle
    /\ ref_call = RefIdle
    /\ promo_call = PromoIdle
    /\ IdleRenew
    /\ IdleGate
    /\ IdleClean
    /\ IdleDate
    /\ IdleUtil

NextClean ==
    \E p \in Tasks :
        \/ send_clean(p)
        \/ delete_previous(p)
        \/ send_message(p)
        \/ record_last_message(p)

SpecClean == InitClean /\ [][NextClean]_vars

\* send_clean called by coroutines that run interleaved at their awaits.
NextCleanRace ==
    \E p \in Tasks :
        \/ send_clean_overlapping(p)
        \/ delete_previous(p)
        \/ send_message(p)
        \/ record_last_message(p)

SpecCleanRace == InitClean /\ [][NextCleanRace]_vars


\* add_months on every base date and number of months of the model.
InitDate ==
    /\ settings = SettingsDefault
    /\ users = [ u \in UserIds |-> PlainUser ]
    /\ subs = [ u \in UserIds |-> [ had |-> FALSE, active |-> FALSE ] ]
    /\ fsm_state = [ u \in UserIds |-> "none" ]
    /\ trial_call = TrialIdle
    /\ start_call = StartIdle
    /\ ref_call = RefIdle
    /\ promo_call = PromoIdle
    /\ IdleRenew
    /\ IdleGate
    /\ IdleClean
    /\ IdleUtil
    /\ date_call \in { [ base_dt |-> b, months_to_add |-> n,
                          result |-> NoDatetime, done |-> FALSE ] :
                          b \in ValidBaseDates, n \in (-MaxMonths)..MaxMonths }

SpecDate == InitDate /\ [][add_months]_vars

\* pluralize_months on every count of -MaxCount..MaxCount.
InitPlural ==
    /\ IdleCore
    /\ IdleTitle
    /\ IdlePm
    /\ plural_call \in { [ n |-> n, result |-> "", done |-> FALSE ] :
                            n \in (-MaxCount)..MaxCount }

SpecPlural == InitPlural /\ [][pluralize_months]_vars

\* _format_pm_title on every network name and last-4 of the sets above.
InitTitle ==
    /\ IdleCore
    /\ IdlePlural
    /\ IdlePm
    /\ title_call \in { [ network |-> n, last4 |-> l,
                           result |-> GetText("", NoStr, NoStr),
                           done |-> FALSE ] :
                           n \in Networks, l \in Last4s }

SpecTitle == InitTitle /\ [][format_pm_title]_vars

\* The payment-method screens, over every table of up to MaxMethods rows
\* and every legacy record of the callers.
InitPm ==
    /\ settings \in { [ SettingsDefault EXCEPT
                           !.YOOKASSA_AUTOPAYMENTS_ENABLED = b ] :
                         b \in BOOLEAN }
    /\ IdleHandlers
    /\ IdlePlural
    /\ IdleTitle
    /\ pm_methods \in PmTables
    /\ billing \in { f \in [ UserIds -> Billings ] :
                       \A u \in UserIds \ Callers : f[u] = NoBilling }
    /\ pm_call = PmIdle

NextPm ==
    \E u \in Callers :
        \/ payment_methods_manage(u)
        \/ payment_methods_list(u)
        \/ payment_method_view(u)

SpecPm == InitPm /\ [][NextPm]_vars
\* ----------------------------------------------------------------- claims

\* C1 (as stated): whenever the user has had a subscription when a trial
\* callback is handled, activate_trial_subscription is not called, the alert
\* is "trial_already_had_subscription_or_trial" and the main menu is shown,
\* for both entry actions.
C1_AsStated ==
    (trial_call.entry \in TrialEntries /\ trial_call.had_before)
        => /\ ~trial_call.activate_called
           /\ trial_call.alert = "trial_already_had_subscription_or_trial"
           /\ trial_call.screen = "main_menu"

\* C1 (amended): a trial callback of a user who has had a subscription never
\* calls activate_trial_subscription, whichever of the two entry actions it
\* is; when the trial feature is enabled and the text service and the
\* callback's message are present, the alert is
\* "trial_already_had_subscription_or_trial" and the main menu is rendered
\* without the trial button.
C1_TrialRejectedOnceHad ==
    (trial_call.entry \in TrialEntries /\ trial_call.had_before)
        => /\ ~trial_call.activate_called
           /\ (settings.TRIAL_ENABLED /\ trial_call.i18n_ok
                  /\ trial_call.has_message)
                 => /\ trial_call.alert =
                         "trial_already_had_subscription_or_trial"
                    /\ trial_call.screen = "main_menu"
                    /\ ~trial_call.show_trial

C1_Witness ==
    /\ trial_call.entry = "trial_action:confirm_activate"
    /\ trial_call.had_before
    /\ settings.TRIAL_ENABLED
    /\ trial_call.alert = "trial_already_had_subscription_or_trial"
    /\ trial_call.screen = "main_menu"

\* C2: once a user's referred_by_id is set, no /start changes it.
C2_ReferrerNeverOverwritten ==
    [][ \A u \in UserIds :
          users[u].referred_by_id # NoId
              => users'[u].referred_by_id = users[u].referred_by_id ]_vars

\* A /start of a registered user resolved a referrer other than the one the
\* row holds, and the row still holds its own.
C2_Witness ==
    /\ start_call.user # NoId
    /\ start_call.outcome = "main_menu"
    /\ start_call.referred_by_user_id # NoId
    /\ users[start_call.user].referred_by_id # NoId
    /\ users[start_call.user].referred_by_id # start_call.referred_by_user_id
    /\ ~subs[start_call.user].active

\* C3: no user is their own referrer, and every referrer written is the id
\* of a registered user.
C3_ReferrerIsAnotherRegisteredUser ==
    \A u \in UserIds :
        users[u].referred_by_id # NoId
            => /\ users[u].exists
               /\ users[u].referred_by_id # u
               /\ users[u].referred_by_id \in UserIds
               /\ users[users[u].referred_by_id].exists

\* /start created the caller's row with the referrer the payload named.
C3_Witness ==
    /\ start_call.user # NoId
    /\ start_call.outcome = "created"
    /\ start_call.referred_by_user_id # NoId
    /\ users[start_call.user].referred_by_id = start_call.referred_by_user_id

\* C4 (as stated): /start never gives a referrer to a registered user who
\* has an active subscription, also when has_active_subscription raises.
C4_AsStated ==
    [][ \A u \in UserIds :
          (users[u].exists /\ users[u].referred_by_id = NoId
              /\ subs[u].active)
              => users'[u].referred_by_id = NoId ]_vars

\* C5: ref_<digits> yields a referral target exactly when LEGACY_REFS is
\* set, the number is not the caller's id and a user with that id is
\* registered; the target is then that number.
C5_LegacyRefNeedsFlagOtherExisting ==
    LET digits == RefGroup(ref_call.args)
        pid == IntOf(digits)
    IN  (ref_call.user # NoId /\ StartsWith(ref_call.args, RefPrefix)
            /\ IsDigitStr(digits))
            => /\ ref_call.referred_by_user_id \in { NoId, pid }
               /\ ref_call.referred_by_user_id # NoId
                     <=> /\ settings.LEGACY_REFS
                         /\ pid # ref_call.user
                         /\ pid \in UserIds
                         /\ users[pid].exists

\* A two-digit payload with a leading zero named a registered user.
C5_Witness ==
    /\ ref_call.user # NoId
    /\ Len(RefGroup(ref_call.args)) = 2
    /\ IsDigitStr(RefGroup(ref_call.args))
    /\ ref_call.referred_by_user_id # NoId

\* C6 (as stated): for ref_<code> with a non-numeric code the lookup key is
\* the nine-character code: a ten-character token loses its leading u/U, a
\* nine-character token is looked up unchanged.
C6_AsStated ==
    LET token == RefGroup(ref_call.args)
    IN  ref_call.path = "code"
            => /\ Len(ref_call.lookup_key) = RefCodeLen
               /\ ref_call.lookup_key =
                     IF Len(token) = RefCodeLen + 1 THEN Tail(token)
                     ELSE token

\* C7 (as stated): a text that is empty after trimming, longer than 100
\* characters, contains one of the SQL keyword phrases in any letter case or
\* contains one of --, "# ", ;, /*, */ never reaches apply_promo_code, is
\* never committed, and is answered with "promo_code_not_found".  Read in
\* the handler's favour: the services are present and the text is the
\* trimmed one.
C7_AsStated ==
    LET code == Strip(promo_call.text)
        phrases ==
            { << "D", "R", "O", "P", " ", "T", "A", "B", "L", "E" >>,
              << "D", "E", "L", "E", "T", "E", " ", "F", "R", "O", "M" >>,
              << "A", "L", "T", "E", "R", " ", "T", "A", "B", "L", "E" >>,
              << "T", "R", "U", "N", "C", "A", "T", "E", " ", "T", "A", "B", "L", "E" >>,
              << "U", "N", "I", "O", "N", " ", "S", "E", "L", "E", "C", "T" >>,
              << "X", "P", "_", "C", "M", "D", "S", "H", "E", "L", "L" >>,
              << "S", "Y", "S", "D", "A", "T", "A", "B", "A", "S", "E", "S" >>,
              << "S", "Y", "S", "O", "B", "J", "E", "C", "T", "S" >>,
              << "I", "N", "F", "O", "R", "M", "A", "T", "I", "O", "N", "_", "S", "C", "H", "E", "M", "A" >> }
        marks ==
            { << "-", "-" >>, << "#", " " >>, << ";" >>, << "/", "*" >>,
              << "*", "/" >> }
        has(p) == \E i \in 1..Len(code) : HasAt(code, i, p)
        hasNoCase(p) == \E i \in 1..Len(code) : HasAtNoCase(code, i, p)
    IN  (/\ promo_call.user # NoId
         /\ promo_call.deps_ok
         /\ \/ Len(code) = 0
            \/ Len(code) > MAX_PROMO_CODE_INPUT_LENGTH
            \/ \E p \in phrases : hasNoCase(p)
            \/ \E p \in marks : has(p))
            => /\ ~promo_call.apply_called
               /\ promo_call.commits = 0
               /\ promo_call.reply.key = "promo_code_not_found"

\* C7 (amended): a text that, once trimmed, is empty, longer than 100
\* characters, contains one of the SQL keyword phrases as whole words in any
\* letter case, or contains one of --, "# ", ;, /*, */ never reaches
\* apply_promo_code and is never committed; when the text service and the
\* promo service are present the reply composed is "promo_code_not_found"
\* with the trimmed text in upper case.
C7_RejectedInputNeverReachesService ==
    LET code == Strip(promo_call.text)
        phrases ==
            { << "D", "R", "O", "P", " ", "T", "A", "B", "L", "E" >>,
              << "D", "E", "L", "E", "T", "E", " ", "F", "R", "O", "M" >>,
              << "A", "L", "T", "E", "R", " ", "T", "A", "B", "L", "E" >>,
              << "T", "R", "U", "N", "C", "A", "T", "E", " ", "T", "A", "B", "L", "E" >>,
              << "U", "N", "I", "O", "N", " ", "S", "E", "L", "E", "C", "T" >>,
              << "X", "P", "_", "C", "M", "D", "S", "H", "E", "L", "L" >>,
              << "S", "Y", "S", "D", "A", "T", "A", "B", "A", "S", "E", "S" >>,
              << "S", "Y", "S", "O", "B", "J", "E", "C", "T", "S" >>,
              << "I", "N", "F", "O", "R", "M", "A", "T", "I", "O", "N", "_", "S", "C", "H", "E", "M", "A" >> }
        marks ==
            { << "-", "-" >>, << "#", " " >>, << ";" >>, << "/", "*" >>,
              << "*", "/" >> }
        has(p) == \E i \in 1..Len(code) : HasAt(code, i, p)
        wholeWords(p) ==
            \E i \in 1..Len(code) :
                /\ HasAtNoCase(code, i, p)
                /\ i = 1 \/ ~IsWordChar(code[i - 1])
                /\ i + Len(p) > Len(code) \/ ~IsWordChar(code[i + Len(p)])
    IN  (/\ promo_call.user # NoId
         /\ \/ Len(code) = 0
            \/ Len(code) > MAX_PROMO_CODE_INPUT_LENGTH
            \/ \E p \in phrases : wholeWords(p)
            \/ \E p \in marks : has(p))
            => /\ ~promo_call.apply_called
               /\ promo_call.commits = 0
               /\ promo_call.deps_ok
                     => /\ promo_call.reply.key = "promo_code_not_found"
                        /\ promo_call.reply.code = UpperStr(code)

\* "drop  table x" in lower case was refused and answered with "not found".
C7_Witness ==
    /\ promo_call.user # NoId
    /\ promo_call.code_input = << "d", "r", "o", "p", " ", " ", "t", "a", "b", "l", "e", " ", "x" >>
    /\ ~promo_call.apply_called
    /\ promo_call.reply.key = "promo_code_not_found"
    /\ promo_call.reply.code = << "D", "R", "O", "P", " ", " ", "T", "A", "B", "L", "E", " ", "X" >>

\* C8: when apply_promo_code returns success the handler calls commit exactly
\* once and never rollback; the reply, composed once the commit and the
\* subscription lookup have returned, carries the new end date as
\* dd.mm.yyyy HH:MM:SS and the active subscription's link, or the
\* "config_link_not_available" placeholder when there is none.
C8_SuccessCommitsOnceAndReplies ==
    LET e == promo_call.reply.end_date
        d == promo_call.new_end_date
        num(i, j) == IntOf(SubSeq(e, i, j))
    IN  promo_call.apply_result = "success"
            => /\ promo_call.commits = 1
               /\ promo_call.rollbacks = 0
               /\ promo_call.raised = ""
                     => /\ promo_call.reply.key =
                             "promo_code_applied_success_full"
                        /\ Len(e) = 19
                        /\ \A i \in { 3, 6 } : e[i] = "."
                        /\ e[11] = " "
                        /\ \A i \in { 14, 17 } : e[i] = ":"
                        /\ \A i \in (1..19) \ { 3, 6, 11, 14, 17 } :
                              IsDigit(e[i])
                        /\ num(1, 2) = d.day
                        /\ num(4, 5) = d.month
                        /\ num(7, 10) = d.year
                        /\ num(12, 13) = d.hour
                        /\ num(15, 16) = d.minute
                        /\ num(18, 19) = d.second
                        /\ promo_call.lookup = "link"
                              => promo_call.reply.config_link
                                     \notin { "", "config_link_not_available" }
                        /\ promo_call.lookup # "link"
                              => promo_call.reply.config_link
                                     = "config_link_not_available"

\* A code was redeemed for a user whose active subscription has no link.
C8_Witness ==
    /\ promo_call.apply_result = "success"
    /\ promo_call.lookup = "no_link"
    /\ promo_call.commits = 1
    /\ promo_call.reply.key = "promo_code_applied_success_full"
    /\ promo_call.reply.config_link = "config_link_not_available"
    /\ promo_call.delivered

\* C9 (as stated): the session is rolled back whenever redemption does not
\* succeed, both when apply_promo_code returns failure and when the input is
\* refused; it is committed only on success.
C9_AsStated ==
    promo_call.user # NoId
        => /\ (promo_call.apply_result = "failure" \/ promo_call.is_suspicious)
                 => promo_call.rollbacks >= 1
           /\ promo_call.commits > 0 => promo_call.apply_result = "success"

\* C10 (as stated): every invocation of process_promo_code_input leaves the
\* user no longer awaiting a promo code.
C10_AsStated ==
    [][ promo_call' # promo_call
          => fsm_state'[promo_call'.user] # "waiting_for_promo_code" ]_vars

\* C11: in toggle_autorenew_handler and confirm_autorenew_handler, a request
\* on a subscription whose provider is "tribute" is refused without the
\* saved-payment-method lookup, for enable and disable alike, and changes no
\* subscription; a request of the owner to enable auto-renew without a saved
\* payment method is answered with "autorenew_enable_requires_card" and
\* changes no subscription.
C11_AutorenewGuards ==
    [][ LET c == renew_call'
            sub == GetSubscription(subscriptions, c.sub_id)
        IN  (/\ renew_call' # renew_call
             /\ c.handler \in { "toggle_autorenew", "autorenew:confirm" }
             /\ c.parsed
             /\ sub.exists)
                => /\ sub.provider = "tribute"
                      => /\ ~c.card_lookup
                         /\ c.alert # ""
                         /\ sub.user_id = c.user
                               => c.alert =
                                    "subscription_autorenew_not_supported_for_tribute"
                         /\ subscriptions' = subscriptions
                   /\ (/\ sub.provider # "tribute"
                       /\ sub.user_id = c.user
                       /\ c.enable
                       /\ ~cards[c.user])
                      => /\ c.alert = "autorenew_enable_requires_card"
                         /\ subscriptions' = subscriptions ]_vars

\* The owner confirmed "enable" without a saved payment method.
C11_Witness ==
    /\ renew_call.handler = "autorenew:confirm"
    /\ renew_call.enable
    /\ renew_call.card_lookup
    /\ renew_call.alert = "autorenew_enable_requires_card"
    /\ ~cards[renew_call.user]
    /\ ~subscriptions[renew_call.sub_id].auto_renew_enabled

\* C12: a subscription's auto_renew_enabled changes only in a callback sent
\* by the user who owns the subscription; a toggle or confirm callback that
\* names a missing subscription or another user's subscription changes
\* nothing and is answered with "error_try_again".
C12_OnlyOwnerChangesAutorenew ==
    [][ LET c == renew_call'
            sub == GetSubscription(subscriptions, c.sub_id)
        IN  /\ \A s \in SubIds :
                  subscriptions'[s] # subscriptions[s]
                      => /\ subscriptions[s].exists
                         /\ c.user = subscriptions[s].user_id
                         /\ subscriptions'[s].user_id = subscriptions[s].user_id
            /\ (/\ renew_call' # renew_call
                /\ c.handler \in { "toggle_autorenew", "autorenew:confirm" }
                /\ c.parsed
                /\ ~sub.exists \/ sub.user_id # c.user)
                  => /\ c.alert = "error_try_again"
                     /\ subscriptions' = subscriptions ]_vars

\* A confirm callback named another user's subscription and was refused.
C12_Witness ==
    /\ renew_call.handler = "autorenew:confirm"
    /\ renew_call.parsed
    /\ renew_call.sub_id \in SubIds
    /\ subscriptions[renew_call.sub_id].exists
    /\ subscriptions[renew_call.sub_id].user_id # renew_call.user
    /\ renew_call.alert = "error_try_again"

\* C13: toggle_autorenew_handler changes no subscription; the only field
\* that ever changes is auto_renew_enabled, in autorenew:confirm or
\* autorenew:cancel, and autorenew:cancel only ever sets it to false.
C13_ToggleWritesNothing ==
    [][ subscriptions' # subscriptions
          => /\ renew_call'.handler \in { "autorenew:confirm", "autorenew:cancel" }
             /\ \A s \in SubIds :
                   /\ subscriptions'[s] =
                        [ subscriptions[s] EXCEPT
                            !.auto_renew_enabled =
                                subscriptions'[s].auto_renew_enabled ]
                   /\ (renew_call'.handler = "autorenew:cancel"
                          /\ subscriptions'[s] # subscriptions[s])
                         => ~subscriptions'[s].auto_renew_enabled ]_vars

\* A toggle request to enable passed every check and showed the prompt,
\* with auto-renew still off.
C13_Witness ==
    /\ renew_call.handler = "toggle_autorenew"
    /\ renew_call.enable
    /\ renew_call.screen = "autorenew_confirm_enable"
    /\ ~subscriptions[renew_call.sub_id].auto_renew_enabled

\* C14: ensure_required_channel_subscription returns true for everyone when
\* no required channel is configured, and returns true without asking the
\* platform for every caller in ADMIN_IDS, for messages and for callbacks,
\* a callback without a message included.
C14_AsStated ==
    (gate_call.handler # "" /\ gate_call.step # "")
        => /\ settings.REQUIRED_CHANNEL_ID = NoChannel => gate_call.result
           /\ gate_call.user \in settings.ADMIN_IDS
                 => gate_call.result /\ ~gate_call.queried

\* C15 as stated: with a required channel configured and the cached channel
\* id equal to it, the gate returns the cached boolean, true or false, and
\* does not ask the platform.
C15_AsStated ==
    [][ LET c == gate_call'
            cache == channel[c.user]
        IN  (/\ gate_call' # gate_call
             /\ c.step # ""
             /\ settings.REQUIRED_CHANNEL_ID # NoChannel
             /\ c.user \notin settings.ADMIN_IDS
             /\ c.has_message
             /\ c.handler = "start" \/ users[c.user].exists
             /\ cache.verified_for = settings.REQUIRED_CHANNEL_ID)
                => ~c.queried /\ c.result = cache.verified ]_vars

\* C15: with a required channel configured, for a registered caller who is
\* no admin and whose event carries a message: when the cached result is
\* true and was cached for the required channel id, the gate returns true,
\* does not ask the platform and leaves the cached fields alone; in every
\* other case (a cached false, nothing cached, another channel id) it asks
\* the platform.
C15_CachedPassSkipsPlatform ==
    [][ LET c == gate_call'
            cache == channel[c.user]
        IN  (/\ gate_call' # gate_call
             /\ c.step # ""
             /\ settings.REQUIRED_CHANNEL_ID # NoChannel
             /\ c.user \notin settings.ADMIN_IDS
             /\ c.has_message
             /\ c.handler = "start" \/ users[c.user].exists)
                => IF /\ cache.verified
                      /\ cache.verified_for = settings.REQUIRED_CHANNEL_ID
                   THEN c.result /\ ~c.queried /\ channel' = channel
                   ELSE c.queried ]_vars

\* A registered user verified for the required channel passed on the cache.
C15_Witness ==
    /\ gate_call.handler = "channel_subscription:verify"
    /\ gate_call.step = "cached"
    /\ gate_call.result
    /\ ~gate_call.queried
    /\ gate_call.user \notin settings.ADMIN_IDS
    /\ channel[gate_call.user].verified
    /\ channel[gate_call.user].verified_for = settings.REQUIRED_CHANNEL_ID

\* C16: when the gate asks the platform, the statuses creator,
\* administrator, member and restricted give pass, any other status and
\* TelegramBadRequest give fail, and in both cases the result, the required
\* channel id and the time of the check are written to the User;
\* TelegramForbiddenError and any other TelegramAPIError give fail and leave
\* the cached fields as they were.  The write is the gate's update_user on
\* the session (gate_call.cache); channel_subscription:verify keeps it.
C16_DefinitiveCheckIsCached ==
    [][ LET c == gate_call'
            u == c.user
            written(v) == [ verified |-> v,
                            verified_for |-> settings.REQUIRED_CHANNEL_ID,
                            checked_at |-> clock ]
        IN  (gate_call' # gate_call /\ c.queried)
                => /\ c.platform \in { "creator", "administrator", "member",
                                       "restricted" }
                      => c.result /\ c.cache = written(TRUE)
                   /\ c.platform \in { "left", "kicked", "TelegramBadRequest" }
                      => ~c.result /\ c.cache = written(FALSE)
                   /\ c.platform \in { "TelegramForbiddenError",
                                       "TelegramAPIError" }
                      => ~c.result /\ c.cache = channel[u]
                                  /\ channel' = channel
                   /\ c.platform \in PlatformOutcomes
                   /\ c.handler = "channel_subscription:verify"
                      => channel'[u] = c.cache ]_vars

\* The platform refused the query with TelegramBadRequest and the failed
\* check was cached with its time.
C16_Witness ==
    /\ gate_call.queried
    /\ gate_call.platform = "TelegramBadRequest"
    /\ ~gate_call.result
    /\ channel[gate_call.user] =
          [ verified |-> FALSE,
            verified_for |-> settings.REQUIRED_CHANNEL_ID,
            checked_at |-> clock ]

\* C17: when the channel gate fails in /start or in
\* channel_subscription:verify, the handler sends no welcome message,
\* attempts no automatic promo redemption and does not call send_main_menu.
C17_FailedGateStopsHandler ==
    (/\ gate_call.handler \in { "start", "channel_subscription:verify" }
     /\ gate_call.step # ""
     /\ ~gate_call.result)
        => /\ ~gate_call.welcome
           /\ ~gate_call.promo_attempted
           /\ ~gate_call.main_menu
           /\ gate_call.screen = ""

\* /start met a failed membership check: the prompt was answered and
\* nothing else was sent.
C17_Witness ==
    /\ gate_call.handler = "start"
    /\ gate_call.queried
    /\ gate_call.platform = "left"
    /\ ~gate_call.result
    /\ gate_call.prompt = "answer"
    /\ ~settings.DISABLE_WELCOME_MESSAGE
    /\ ~gate_call.welcome

\* C18 as stated: for send_clean calls that do not overlap, after each call
\* that returned exactly one message sent by send_clean is in the chat, the
\* latest, and _last_messages holds its id.
C18_AsStated ==
    ((\A p \in Tasks : task[p].pc = "idle") /\ clean_call.outcome = "returned")
        => /\ chat_messages = { clean_call.sent }
           /\ last_messages = clean_call.sent

\* C18: for send_clean calls that do not overlap: the delete of the tracked
\* message ends before the new message is sent, and a failing delete stops
\* neither the send nor the update; after each call that returned,
\* _last_messages holds the id of the message the call sent, that message
\* is in the chat, and every other message of send_clean still in the chat
\* is one whose delete failed, so that exactly one message survives when no
\* delete failed on a message that was still there.
C18_LatestTrackedOthersUndeleted ==
    /\ \A p \in Tasks :
          task[p].pc \in { "await_send", "sent" }
              => task[p].msg_id \notin chat_messages \ undeleted
    /\ ((\A p \in Tasks : task[p].pc = "idle")
            /\ clean_call.outcome = "returned")
          => /\ last_messages = clean_call.sent
             /\ clean_call.sent \in chat_messages
             /\ chat_messages \ { clean_call.sent } \subseteq undeleted
             /\ undeleted = {} => chat_messages = { last_messages }

\* A call returned after the delete of the tracked message had failed on a
\* message no longer there: one message survives, the latest.
C18_Witness ==
    /\ \A p \in Tasks : task[p].pc = "idle"
    /\ clean_call.outcome = "returned"
    /\ clean_call.msg_id # NoMessage
    /\ clean_call.delete = "failed"
    /\ undeleted = {}
    /\ chat_messages = { clean_call.sent }
    /\ last_messages = clean_call.sent

\* C19: when two overlapping send_clean calls for the chat both read the
\* same tracked id and both return, the two messages they sent are both in
\* the chat and _last_messages holds the id of one of them only.
C19_OverlapLeavesTwoMessages ==
    \A p, q \in Tasks :
        (/\ p # q
         /\ task[p].pc = "idle" /\ task[q].pc = "idle"
         /\ task[p].sent # NoMessage /\ task[q].sent # NoMessage
         /\ task[p].msg_id = task[q].msg_id)
            => /\ task[p].sent # task[q].sent
               /\ { task[p].sent, task[q].sent } \subseteq chat_messages
               /\ last_messages # task[p].msg_id

\* Two calls read the same tracked message, deleted it, sent and returned:
\* two messages of send_clean are in the chat, one of them tracked, and no
\* delete failed on a message that was still there.
C19_Witness ==
    \E p, q \in Tasks :
        /\ p # q
        /\ task[p].pc = "idle" /\ task[q].pc = "idle"
        /\ task[p].msg_id = task[q].msg_id
        /\ task[p].msg_id # NoMessage
        /\ task[p].sent # NoMessage /\ task[q].sent # NoMessage
        /\ chat_messages = { task[p].sent, task[q].sent }
        /\ Cardinality(chat_messages) = 2
        /\ last_messages = task[q].sent
        /\ undeleted = {}

C23_AsStated ==
    LET s == OrEmpty(title_call.network)
        wallet == \E i \in 1..Len(s) :
                     \/ HasAtNoCase(s, i, << "y", "o", "o", "m", "o", "n", "e", "y" >>)
                     \/ HasAtNoCase(s, i, << "y", "o", "o", " ", "m", "o", "n", "e", "y" >>)
                     \/ HasAtNoCase(s, i, << "y", "o", "o", "-", "m", "o", "n", "e", "y" >>)
        run(i, j) == /\ i <= j
                     /\ \A k \in i..j : IsDigit(s[k])
                     /\ i = 1 \/ ~IsDigit(s[i - 1])
                     /\ j = Len(s) \/ ~IsDigit(s[j + 1])
        longest(i, j) ==
            /\ run(i, j)
            /\ \A a, b \in 1..Len(s) : run(a, b) => b - a <= j - i
    IN  title_call.done /\ wallet /\ (\E k \in 1..Len(s) : IsDigit(s[k]))
            => /\ title_call.result.key = "payment_method_wallet_title"
               /\ \E i, j \in 1..Len(s) :
                     /\ longest(i, j)
                     /\ title_call.result.last4 =
                            SubSeq(s, IF j - 3 > i THEN j - 3 ELSE i, j)

\* C23: when the network name contains yoomoney, yoo money or yoo-money in
\* any letter case, the title is the wallet title, whose last-4 is the
\* last-4 given if there is one, otherwise the last four of all the digits
\* of the name taken in order if it has four, otherwise four stars;
\* otherwise, when a last-4 is given, the card title with the network (or
\* the default card text) and the last-4; otherwise the generic title with
\* the network (or the default generic text).
C23_PaymentMethodTitle ==
    LET s == OrEmpty(title_call.network)
        l == title_call.last4
        r == title_call.result
        wallet == \E i \in 1..Len(s) :
                     \/ HasAtNoCase(s, i, << "y", "o", "o", "m", "o", "n", "e", "y" >>)
                     \/ HasAtNoCase(s, i, << "y", "o", "o", " ", "m", "o", "n", "e", "y" >>)
                     \/ HasAtNoCase(s, i, << "y", "o", "o", "-", "m", "o", "n", "e", "y" >>)
        pos == { k \in 1..Len(s) : IsDigit(s[k]) }
        known == l # NoStr /\ Len(l) > 0
        fourth == CHOOSE k \in pos : Cardinality({ m \in pos : m >= k }) = 4
        lastFour == [ n \in 1..4 |->
                        s[CHOOSE k \in pos :
                            /\ k >= fourth
                            /\ Cardinality({ m \in pos :
                                              fourth <= m /\ m <= k }) = n] ]
    IN  title_call.done /\ r.key # ""
            => /\ wallet =>
                    /\ r.key = "payment_method_wallet_title"
                    /\ r.last4 = IF known THEN l
                                 ELSE IF Cardinality(pos) >= 4 THEN lastFour
                                 ELSE << "*", "*", "*", "*" >>
               /\ ~wallet /\ known =>
                    /\ r.key = "payment_method_card_title"
                    /\ r.last4 = l
                    /\ r.network = IF Len(s) > 0 THEN s
                                   ELSE << "payment_network_card" >>
               /\ ~wallet /\ ~known =>
                    /\ r.key = "payment_method_generic_title"
                    /\ r.last4 = NoStr
                    /\ r.network = IF Len(s) > 0 THEN s
                                   ELSE << "payment_network_generic" >>

C23_Witness ==
    /\ title_call.done
    /\ title_call.network = << "Y", "o", "o", " ", "M", "o", "n", "e", "y", " ", "1", "2", " ", "3", "4", "5", "6", " ", "7" >>
    /\ title_call.last4 = NoStr
    /\ title_call.result.key = "payment_method_wallet_title"
    /\ title_call.result.last4 = << "4", "5", "6", "7" >>

\* C24 as stated: with YOOKASSA_AUTOPAYMENTS_ENABLED off, both pm:manage
\* and pm:list:<page> answer with the service-unavailable alert, read no
\* payment methods and render no list.
C24_AsStated ==
    /\ pm_call.handler \in { "pm:manage", "pm:list" }
    /\ ~settings.YOOKASSA_AUTOPAYMENTS_ENABLED
    => /\ pm_call.alert = "error_service_unavailable"
       /\ ~pm_call.listed
       /\ pm_call.screen = ""

\* C25 as stated: whenever the user has rows in the per-method table,
\* pm:view:<id> shows the row whose internal id or provider id equals <id>,
\* or the first row when none matches or no id is given; the legacy record
\* is shown only when the user has no rows in the per-method table.
C25_AsStated ==
    LET rows == { k \in DOMAIN pm_methods :
                    pm_methods[k].user_id = pm_call.user }
        first == CHOOSE k \in rows : \A j \in rows : k <= j
        id == IF Len(pm_call.data) > 8
              THEN SubSeq(pm_call.data, 9, Len(pm_call.data))
              ELSE << >>
        match == { k \in rows :
                     \/ << DigitSeq[pm_methods[k].method_id + 1] >> = id
                     \/ pm_methods[k].provider_payment_method_id = id }
        wanted == IF match # {}
                  THEN CHOOSE k \in match : \A j \in match : k <= j
                  ELSE first
    IN  /\ pm_call.handler = "pm:view"
        /\ settings.YOOKASSA_AUTOPAYMENTS_ENABLED
        => /\ rows # {} => /\ pm_call.source = "row"
                           /\ pm_call.method_id = pm_methods[wanted].method_id
           /\ pm_call.source = "legacy" => rows = {}

\* C27 as stated: every /start ends with at least one message or alert
\* delivered to the user (the error reply, the channel prompt, the
\* check-failed notice, the welcome, the promo-success screen or the main
\* menu), also when the membership query fails with a permission or other
\* platform API error.
C27_AsStated ==
    gate_call.handler = "start" /\ start_call.user = gate_call.user
        => \/ start_call.outcome = "error_occurred_processing_request"
           \/ gate_call.prompt # ""
           \/ gate_call.alert # ""
           \/ gate_call.welcome
           \/ gate_call.screen # ""

C28_AsStated ==
    [][ (start_call' # start_call /\ gate_call'.handler = "start")
            => /\ start_call'.discarded = {}
               /\ gate_call'.wrote
                    => channel'[gate_call'.user] = gate_call'.cache ]_vars

\* C29: in /start with an ad token, a failure while resolving the campaign
\* or recording the attribution undoes only the attribution write: the
\* profile patch of an existing user is still persisted, and the handler
\* continues to the channel gate.
C29_AsStated ==
    [][ (start_call' # start_call /\ start_call'.ad = "raises")
            => /\ "patch" \notin start_call'.discarded
               /\ attribution' = attribution
               /\ gate_call'.handler = "start"
               /\ gate_call'.user = start_call'.user ]_vars

C32_AsStated ==
    [][ (/\ dev_call' # dev_call
         /\ dev_call'.handler = "main_action:my_devices"
         /\ settings.MY_DEVICES_SECTION_ENABLED
         /\ dev_call'.alert = "")
            => LET c == dev_call'
                   devices == panel_devices[c.user]
               IN  /\ c.via \in { "edit_text", "send_clean" }
                   /\ c.max_devices # <<>>
                   /\ IF devices.devices # <<>>
                      THEN /\ c.screen = "my_devices_details"
                           /\ c.listed = devices.devices
                           /\ c.buttons = devices.devices
                      ELSE /\ c.screen = "no_devices_details_found_message"
                           /\ c.buttons = <<>> ]_vars

\* C33: in every reachable state, a subscription with auto_renew_enabled
\* belongs to a user who has at least one saved payment method, also after
\* that user deletes payment methods through pm:delete.
C33_AsStated ==
    \A s \in SubIds :
        (subscriptions[s].exists /\ subscriptions[s].auto_renew_enabled)
            => UserHasSavedPaymentMethod(pm_methods, billing,
                                         subscriptions[s].user_id)

\* C37: a pm:delete_confirm:<id> callback never deletes anything: only the
\* confirmation handler runs for it, and a payment method is deleted only
\* by a pm:delete:<id> callback.
C37_ConfirmNeverDeletes ==
    [][ /\ (/\ pm_call' # pm_call
            /\ StartsWith(pm_call'.data,
                          << "p", "m", ":", "d", "e", "l", "e", "t", "e", "_", "c", "o", "n", "f", "i", "r", "m" >>))
            => /\ pm_call'.handler = "pm:delete_confirm"
               /\ pm_methods' = pm_methods
               /\ billing' = billing
               /\ ~pm_call'.committed
        /\ (pm_methods' # pm_methods \/ billing' # billing)
            => /\ pm_call'.handler = "pm:delete"
               /\ StartsWith(pm_call'.data,
                             << "p", "m", ":", "d", "e", "l", "e", "t", "e", ":" >>) ]_vars

\* The confirmation screen for method 1 was shown with the autopayments
\* on, and the row of method 1 is still in the table.
C37_Witness ==
    /\ pm_call.handler = "pm:delete_confirm"
    /\ pm_call.screen = "payment_method_delete_confirm"
    /\ pm_call.keyboard_id = << "1" >>
    /\ \E k \in DOMAIN pm_methods :
           pm_methods[k].method_id = 1 /\ pm_methods[k].user_id = pm_call.user

\* C38: a pm:delete:<id> callback whose <id> matches none of the caller's
\* saved payment methods removes no saved payment instrument of the caller
\* (neither per-method rows nor the legacy record) and shows the failure
\* banner; the success banner is shown only when the method named by <id>
\* was removed.
C38_AsStated ==
    [][ (pm_call' # pm_call /\ pm_call'.handler = "pm:delete")
            => LET c == pm_call'
                   u == c.user
                   id == PmIdOf(c.data)
                   named == \/ \E k \in DOMAIN pm_methods :
                                  RowNamed(pm_methods[k], u, id)
                            \/ (/\ HasLegacyMethod(billing[u])
                                /\ billing[u].yookassa_payment_method_id = id)
               IN  /\ ~named
                        => /\ pm_methods' = pm_methods
                           /\ billing' = billing
                           /\ c.banner # "payment_method_deleted_success"
                   /\ c.banner = "payment_method_deleted_success" => named ]_vars

\* C34: apply_promo_code is never invoked, from any handler, with a code
\* that the promo input validation would reject: the automatic redemption
\* of a /start promo_<code> deep link passes the same length and
\* suspicious-pattern checks as typed input before the service is called.
C34_AsStated ==
    /\ gate_call.promo_attempted => ~IsSuspicious(start_call.promo_code)
    /\ promo_call.apply_called => ~IsSuspicious(promo_call.code_input)

\* C35: two /start invocations of the same registered user carrying
\* different valid referral payloads, interleaved at their await points,
\* cannot both assign referred_by_id: the value written first remains.
C35_AsStated ==
    [][ \A u \in UserIds :
          users[u].referred_by_id # NoId
              => users'[u].referred_by_id = users[u].referred_by_id ]_vars

C39_AsStated ==
    [][ (nav_call' # nav_call
           /\ nav_call'.state_before = "waiting_for_promo_code")
          => fsm_state'[nav_call'.user] = "none" ]_vars

\* C40: when /start has passed the channel gate and sent the welcome, the
\* welcome is still in the chat when the handler returns.  As stated; the
\* send_clean of the screen that follows deletes it.
C40_AsStated ==
    [][ (welcome_call' # welcome_call /\ welcome_call'.welcome # NoMessage)
          => welcome_call'.welcome \in chat_messages' ]_vars
====
